---- MODULE Spec2Model ----
(***************************************************************************)
(* Credential lifecycle of realworld-axum-api: the refresh-token rotation  *)
(* with reuse detection, login and logout, and the account lifecycle       *)
(* (register, verify_email, forgot_password, reset_password) of            *)
(* src/handlers/auth.rs over the four tables of src/repositories.          *)
(*                                                                         *)
(* Every request is an independent task.  A handler runs from one .await   *)
(* on a store call to the next; each such store call is one atomic step of *)
(* the model, so requests interleave exactly at the store calls.  A store  *)
(* call may return Err (sqlx::Error), the alert mail may fail, and the     *)
(* TimeoutLayer of main.rs may drop a handler at any pending .await.       *)
(*                                                                         *)
(* Request bodies are well formed (validate() passes) and JWT_SECRET is    *)
(* set.  Of a refresh_tokens row the model keeps the columns the handlers  *)
(* read: token, user_id, expires_at, is_used.                              *)
(***************************************************************************)
EXTENDS Integers, FiniteSets, Sequences, TLC

\* ------------------------------------------------------------------ bounds
MaxTokens == 5          \* the last token generate_refresh_token may return
MaxTime == 2            \* the clock runs over 0..MaxTime
MaxRequests == 2        \* requests that may be started in one behaviour

\* ------------------------------------------------------- program constants
AccessTtl == 1          \* Duration::minutes(1); the clock counts minutes
ResetTtl == 60          \* Duration::hours(1), forgot_password
VerificationTtl == 1440 \* Duration::hours(24), register
Leeway == 1             \* Validation::default(): leeway of 60 seconds
\* The lifetime the column default of refresh_tokens.expires_at gives a new
\* row (create_token inserts user_id and token only), in ticks of the clock.
RefreshTtl == 1

Req == {"a", "b"}       \* request tasks that may be in flight together

\* The credentials clients log in with: right and wrong password of a user,
\* another user, and an email (e3) that belongs to no user.
Logins == {<<"e1", "p1">>, <<"e1", "p2">>, <<"e2", "p2">>, <<"e3", "p1">>}
JwtSecret == "secret"                 \* the JWT_SECRET environment variable

VARIABLES users, refresh_tokens, now, req, nextToken, started, alerts,
          email_verification_tokens, password_reset_tokens, mails, nextUser

vars == <<users, refresh_tokens, now, req, nextToken, started, alerts,
          email_verification_tokens, password_reset_tokens, mails, nextUser>>

\* The tables and the outbox that only register, verify_email, forgot_password
\* and reset_password touch.
account == <<email_verification_tokens, password_reset_tokens, mails, nextUser>>

\* ------------------------------------------------------------ status codes
OK == 200
UNAUTHORIZED == 401
NOT_FOUND == 404
REQUEST_TIMEOUT == 408
CONFLICT == 409
GONE == 410
INTERNAL_SERVER_ERROR == 500

\* ---------------------------------------------------------------- password
\* bcrypt: a salted digest; verify recomputes the digest under the stored salt.
hash_password(password, salt) ==
    [salt |-> salt, digest |-> <<salt, password>>]

verify_password(password, hash) ==
    hash.digest = <<hash.salt, password>>

\* --------------------------------------------------------------------- jwt
NoAccess == [sub |-> "none", iat |-> 0, exp |-> 0, key |-> "none"]

\* The token signed with a secret of the code, not with JWT_SECRET.
generate_token_own_secret(user_id, secret, t) ==
    [sub |-> user_id, iat |-> t, exp |-> t + AccessTtl, key |-> "default"]

generate_token(user_id, secret, t) ==
    [sub |-> user_id, iat |-> t, exp |-> t + AccessTtl, key |-> secret]

\* decode with Validation::default(): the signature is checked against the
\* secret, then exp against the clock with the leeway.
validate_token(token, secret, t) ==
    IF token.key # secret THEN "InvalidSignature"
    ELSE IF token.exp + Leeway < t THEN "ExpiredSignature"
    ELSE "Ok"

\* ------------------------------------------------------------ refresh rows
\* A row of refresh_tokens.  session is a history field, not a column: the
\* token of the login that started the chain of rotations the row belongs to.
NoRow == [token |-> 0, user_id |-> "none", expires_at |-> 0,
          is_used |-> FALSE, session |-> 0]

\* The comparison turned round.
is_expired_reversed(row, t) == t < row.expires_at

is_expired(row, t) == t > row.expires_at

is_valid(row, t) == ~is_expired(row, t) /\ ~row.is_used

\* RefreshTokenRepository, as operators on the table (a set of rows, the
\* token column unique).
HasToken(table, token) == \E row \in table : row.token = token

find_by_token(table, token) ==
    IF HasToken(table, token)
    THEN CHOOSE row \in table : row.token = token
    ELSE NoRow

\* One session per user: the insert replaces the user's earlier rows.
create_token_single_session(table, user_id, token, t, session) ==
    {row \in table : row.user_id # user_id} \cup
        {[token |-> token, user_id |-> user_id,
          expires_at |-> t + RefreshTtl, is_used |-> FALSE,
          session |-> session]}

create_token(table, user_id, token, t, session) ==
    table \cup {[token |-> token, user_id |-> user_id,
                 expires_at |-> t + RefreshTtl, is_used |-> FALSE,
                 session |-> session]}

\* DELETE of every row of the user the token belongs to: all its sessions.
delete_token_of_user(table, token) ==
    {row \in table :
        \A own \in table : own.token = token => row.user_id # own.user_id}

delete_token(table, token) == {row \in table : row.token # token}

\* WHERE user_id = $1 AND is_used: only the consumed rows go.
delete_all_user_tokens_used_only(table, user_id) ==
    {row \in table : row.user_id # user_id \/ ~row.is_used}

delete_all_user_tokens(table, user_id) ==
    {row \in table : row.user_id # user_id}

\* The UPDATE without its WHERE clause.
mark_token_as_used_no_where(table, token) ==
    {[row EXCEPT !.is_used = TRUE] : row \in table}

\* SET is_used = NOT is_used: a second mark takes the first one back.
mark_token_as_used_toggle(table, token) ==
    {IF row.token = token THEN [row EXCEPT !.is_used = ~row.is_used]
     ELSE row : row \in table}

mark_token_as_used(table, token) ==
    {IF row.token = token THEN [row EXCEPT !.is_used = TRUE] ELSE row :
        row \in table}

\* ------------------------------------------------------------------- users
\* A row of users, of the columns the handlers read or write.
NoUser == [id |-> "none", username |-> "none", email |-> "none",
           password_hash |-> hash_password("none", "none"),
           email_verified |-> FALSE]

\* WHERE username = $1: the lookup compares the wrong column.
find_by_email_wrong_column(table, email) ==
    IF \E u \in table : u.username = email
    THEN CHOOSE u \in table : u.username = email
    ELSE NoUser

find_by_email(table, email) ==
    IF \E u \in table : u.email = email
    THEN CHOOSE u \in table : u.email = email
    ELSE NoUser

find_by_id(table, id) ==
    IF \E u \in table : u.id = id
    THEN CHOOSE u \in table : u.id = id
    ELSE NoUser

\* The fields of struct User, which the derived FromRow reads from a row by
\* name.
UserColumns ==
    {"id", "username", "email", "password_hash", "bio", "image",
     "email_verified", "created_at", "updated_at"}

\* The SELECT list of find_by_username.
FindByUsernameColumns ==
    {"id", "username", "email", "password_hash", "bio", "image",
     "created_at", "updated_at"}

\* query_as::<_, User>: a row decodes when it carries every field of User
\* (a missing one is sqlx::Error::ColumnNotFound).
from_row(columns) == UserColumns \subseteq columns

HasUsername(table, username) == \E u \in table : u.username = username

HasEmail(table, email) == \E u \in table : u.email = email

\* What find_by_username gives the handler: "none" (no such row), "some", or
\* "err" when the row found does not decode.
find_by_username(table, username) ==
    IF ~HasUsername(table, username) THEN "none"
    ELSE IF from_row(FindByUsernameColumns) THEN "some"
    ELSE "err"

\* users.username and users.email are unique: the INSERT of a duplicate is a
\* sqlx::Error.
ViolatesUnique(table, username, email) ==
    HasUsername(table, username) \/ HasEmail(table, email)

\* The column default of users.email_verified.
EmailVerifiedDefault == FALSE

\* INSERT INTO users (username, email, password_hash); id and email_verified
\* take their column defaults.
create(table, id, username, email, password_hash) ==
    table \cup {[id |-> id, username |-> username, email |-> email,
                 password_hash |-> password_hash,
                 email_verified |-> EmailVerifiedDefault]}

\* SET password_hash = $2, email_verified = FALSE: a new password asks for a
\* new verification.
update_password_unverifies(table, user_id, new_password_hash) ==
    {IF u.id = user_id
     THEN [u EXCEPT !.password_hash = new_password_hash,
                    !.email_verified = FALSE]
     ELSE u : u \in table}

\* The parameters bound in the wrong order: WHERE id = $2 matches no row.
update_password_no_match(table, user_id, new_password_hash) ==
    {IF u.id = new_password_hash.salt
     THEN [u EXCEPT !.password_hash = new_password_hash]
     ELSE u : u \in table}

update_password(table, user_id, new_password_hash) ==
    {IF u.id = user_id THEN [u EXCEPT !.password_hash = new_password_hash]
     ELSE u : u \in table}

\* ---------------------------------------------------- single-use token rows
\* A row of email_verification_tokens or of password_reset_tokens.
NoSingleUse == [token |-> 0, user_id |-> "none", expires_at |-> 0]

\* EmailVerificationToken::is_expired and PasswordResetToken::is_expired.
single_use_is_expired(row, t) == t > row.expires_at

HasSingleUse(table, token) == \E row \in table : row.token = token

\* EmailVerificationRepository.
email_verification_create_token(table, user_id, token, expires_at) ==
    table \cup {[token |-> token, user_id |-> user_id,
                 expires_at |-> expires_at]}

email_verification_find_by_token(table, token) ==
    IF HasSingleUse(table, token)
    THEN CHOOSE row \in table : row.token = token
    ELSE NoSingleUse

\* WHERE token <> $1: the comparison turned round.
email_verification_delete_token_inverted(table, token) ==
    {row \in table : row.token = token}

email_verification_delete_token(table, token) ==
    {row \in table : row.token # token}

verify_user_email(table, user_id) ==
    {IF u.id = user_id THEN [u EXCEPT !.email_verified = TRUE] ELSE u :
        u \in table}

\* An insert that keeps one outstanding reset token per user.
password_reset_create_token_replacing(table, user_id, token, expires_at) ==
    {row \in table : row.user_id # user_id}
        \cup {[token |-> token, user_id |-> user_id,
                expires_at |-> expires_at]}

\* PasswordResetRepository.
password_reset_create_token(table, user_id, token, expires_at) ==
    table \cup {[token |-> token, user_id |-> user_id,
                 expires_at |-> expires_at]}

password_reset_find_by_token(table, token) ==
    IF HasSingleUse(table, token)
    THEN CHOOSE row \in table : row.token = token
    ELSE NoSingleUse

password_reset_delete_token(table, token) ==
    {row \in table : row.token # token}

\* DELETE FROM password_reset_tokens without the WHERE clause.
password_reset_delete_all_user_tokens_no_where(table, user_id) ==
    {row \in table : row.user_id # user_id /\ row.user_id = user_id}

password_reset_delete_all_user_tokens(table, user_id) ==
    {row \in table : row.user_id # user_id}

\* ---------------------------------------------------------------- requests
\* One request task: its handler (op), the store call it is about to make
\* (pc), the request body (email, password, token), the row that
\* find_by_token returned (the local refresh_token), and the response.
\* path, fault, mail and at are history fields: the branch the handler took,
\* whether one of its store calls returned Err, how the alert mail went, and
\* the store call a dropped handler was pending on.
Idle == [op |-> "none", pc |-> "idle", username |-> "none",
         email |-> "none", password |-> "none",
         token |-> 0, row |-> NoRow, user_id |-> "none", status |-> 0,
         access_token |-> NoAccess, refresh_token |-> 0,
         single_use |-> 0, expires_at |-> 0,
         path |-> "none", fault |-> FALSE, mail |-> "none",
         at |-> "none", message |-> "none",
         header |-> [scheme |-> "none",
                     token |-> [sub |-> "none", iat |-> 0, exp |-> 0,
                                key |-> "none"]],
         auth |-> "none"]

InFlight(r) == req[r].pc \notin {"idle", "done", "aborted"}

Free(r) == ~InFlight(r)

\* What is left of a request when its handler has returned or was dropped:
\* the locals are gone, the request and the history fields are kept.
Ended(q) ==
    [Idle EXCEPT !.op = q.op, !.token = q.token, !.path = q.path,
                 !.fault = q.fault, !.mail = q.mail, !.header = q.header]

\* The handler returns Err(status): the response has that status and no body.
Err(q, status) ==
    [Ended(q) EXCEPT !.pc = "done", !.status = status]

\* A store call returned Err(sqlx::Error) and the handler maps it to 500.
StoreErr(q) == [Err(q, INTERNAL_SERVER_ERROR) EXCEPT !.fault = TRUE]

\* The handler returns Ok(Json(..)) carrying the two tokens.
Ok(q, access, refresh) ==
    [Ended(q) EXCEPT !.pc = "done", !.status = OK,
                     !.access_token = access, !.refresh_token = refresh]

\* generate_refresh_token: Uuid::new_v4, a value no earlier call returned.
generate_refresh_token == nextToken

\* ------------------------------------------------------------------ login
\* An unknown email answered 404, as the token lookups of the other handlers.
LoginCheck_not_found(user, password) ==
    IF user = NoUser THEN NOT_FOUND
    ELSE IF ~verify_password(password, user.password_hash) THEN UNAUTHORIZED
    ELSE OK

\* A login that asks for a verified email.
LoginCheck_verified_only(user, password) ==
    IF user = NoUser THEN UNAUTHORIZED
    ELSE IF ~verify_password(password, user.password_hash) THEN UNAUTHORIZED
    ELSE IF ~user.email_verified THEN UNAUTHORIZED
    ELSE OK

\* login, lines 154-174: the outcome of the lookup and the password check.
LoginCheck(user, password) ==
    IF user = NoUser THEN UNAUTHORIZED
    ELSE IF ~verify_password(password, user.password_hash) THEN UNAUTHORIZED
    ELSE OK

StartLogin(r, email, password) ==
    /\ Free(r) /\ started < MaxRequests
    /\ started' = started + 1
    /\ req' = [req EXCEPT ![r] = [Idle EXCEPT !.op = "login",
                                              !.pc = "login_find",
                                              !.email = email,
                                              !.password = password]]
    /\ UNCHANGED <<users, refresh_tokens, now, nextToken, alerts, account>>

\* find_by_email, then verify_password (no .await in between).
LoginFind(r) ==
    /\ req[r].pc = "login_find"
    /\ \/ req' = [req EXCEPT ![r] = StoreErr(@)]
       \/ LET user == find_by_email(users, req[r].email)
              status == LoginCheck(user, req[r].password)
          IN  req' = [req EXCEPT ![r] =
                        IF status = OK
                        THEN [@ EXCEPT !.pc = "login_create",
                                       !.user_id = user.id,
                                       !.path = "valid"]
                        ELSE [Err(@, status) EXCEPT !.path =
                                IF user = NoUser THEN "unknown_email"
                                ELSE "wrong_password"]]
    /\ UNCHANGED <<users, refresh_tokens, now, nextToken, started, alerts, account>>

\* generate_token, generate_refresh_token, create_token, lines 176-206.
LoginCreate(r) ==
    /\ req[r].pc = "login_create"
    /\ \/ /\ req' = [req EXCEPT ![r] = StoreErr(@)]
          /\ UNCHANGED <<refresh_tokens, nextToken>>
       \/ /\ nextToken <= MaxTokens
          /\ LET new == generate_refresh_token
             IN  /\ refresh_tokens' =
                        create_token(refresh_tokens, req[r].user_id, new, now, new)
                 /\ nextToken' = nextToken + 1
                 /\ req' = [req EXCEPT ![r] =
                        Ok(@, generate_token(req[r].user_id, JwtSecret, now), new)]
    /\ UNCHANGED <<users, now, started, alerts, account>>

\* ----------------------------------------------------------------- logout
StartLogout(r, token) ==
    /\ Free(r) /\ started < MaxRequests
    /\ started' = started + 1
    /\ req' = [req EXCEPT ![r] = [Idle EXCEPT !.op = "logout",
                                              !.pc = "logout_delete",
                                              !.token = token]]
    /\ UNCHANGED <<users, refresh_tokens, now, nextToken, alerts, account>>

\* A logout that answers 404 when no row has the token.
LogoutDelete_not_found(r) ==
    /\ req[r].pc = "logout_delete"
    /\ \/ /\ req' = [req EXCEPT ![r] = StoreErr(@)]
          /\ UNCHANGED refresh_tokens
       \/ /\ ~HasToken(refresh_tokens, req[r].token)
          /\ req' = [req EXCEPT ![r] = Err(@, NOT_FOUND)]
          /\ UNCHANGED refresh_tokens
       \/ /\ HasToken(refresh_tokens, req[r].token)
          /\ refresh_tokens' = delete_token(refresh_tokens, req[r].token)
          /\ req' = [req EXCEPT ![r] = Ok(@, NoAccess, 0)]
    /\ UNCHANGED <<users, now, nextToken, started, alerts, account>>

\* A logout that answers 200 without the delete.
LogoutDelete_no_delete(r) ==
    /\ req[r].pc = "logout_delete"
    /\ \/ req' = [req EXCEPT ![r] = StoreErr(@)]
       \/ req' = [req EXCEPT ![r] = Ok(@, NoAccess, 0)]
    /\ UNCHANGED <<users, refresh_tokens, now, nextToken, started, alerts,
                   account>>

LogoutDelete(r) ==
    /\ req[r].pc = "logout_delete"
    /\ \/ /\ req' = [req EXCEPT ![r] = StoreErr(@)]
          /\ UNCHANGED refresh_tokens
       \/ /\ refresh_tokens' = delete_token(refresh_tokens, req[r].token)
          /\ req' = [req EXCEPT ![r] = Ok(@, NoAccess, 0)]
    /\ UNCHANGED <<users, now, nextToken, started, alerts, account>>

\* ---------------------------------------------------------------- refresh
\* The handler without its step 3: a consumed token is rotated again.
RefreshBranch_no_reuse_check(found, row, t) ==
    IF ~found THEN "not_found"
    ELSE IF is_expired(row, t) THEN "expired"
    ELSE "rotate"

\* Reuse detection put before the expiry check.
RefreshBranch_reuse_first(found, row, t) ==
    IF ~found THEN "not_found"
    ELSE IF row.is_used THEN "reuse"
    ELSE IF is_expired(row, t) THEN "expired"
    ELSE "rotate"

\* refresh_token, steps 1-3 (lines 413-436): the branch taken on the result
\* of find_by_token, the checks in the order the handler makes them.
RefreshBranch(found, row, t) ==
    IF ~found THEN "not_found"
    ELSE IF is_expired(row, t) THEN "expired"
    ELSE IF row.is_used THEN "reuse"
    ELSE "rotate"

\* .ok_or(StatusCode::NOT_FOUND) on the lookup, as verify_email has it.
RefreshStatus_not_found(branch) ==
    CASE branch = "not_found" -> NOT_FOUND
      [] branch = "expired" -> UNAUTHORIZED
      [] branch = "reuse" -> UNAUTHORIZED
      [] branch = "no_user" -> INTERNAL_SERVER_ERROR

\* The status of each Err the handler returns without a store failure.
RefreshStatus(branch) ==
    CASE branch = "not_found" -> UNAUTHORIZED      \* line 422
      [] branch = "expired" -> UNAUTHORIZED        \* line 432
      [] branch = "reuse" -> UNAUTHORIZED          \* line 478
      [] branch = "no_user" -> INTERNAL_SERVER_ERROR   \* line 466

\* send_security_alert(..).await? : a failed mail fails the request.
AlertStatus_propagated(sent) ==
    IF sent THEN RefreshStatus("reuse") ELSE INTERNAL_SERVER_ERROR

\* The result of send_security_alert is logged and dropped, lines 469-478.
AlertStatus(sent) == RefreshStatus("reuse")

StartRefresh(r, token) ==
    /\ Free(r) /\ started < MaxRequests
    /\ started' = started + 1
    /\ req' = [req EXCEPT ![r] = [Idle EXCEPT !.op = "refresh",
                                              !.pc = "find",
                                              !.token = token]]
    /\ UNCHANGED <<users, refresh_tokens, now, nextToken, alerts, account>>

\* Step 1, find_by_token, and the checks of steps 2 and 3 on the row read.
RefreshFind(r) ==
    /\ req[r].pc = "find"
    /\ \/ req' = [req EXCEPT ![r] = StoreErr(@)]
       \/ LET found == HasToken(refresh_tokens, req[r].token)
              row == find_by_token(refresh_tokens, req[r].token)
              branch == RefreshBranch(found, row, now)
          IN  req' = [req EXCEPT ![r] =
                CASE branch = "not_found" ->
                        [Err(@, RefreshStatus(branch)) EXCEPT !.path = branch]
                  [] branch = "expired" ->
                        [@ EXCEPT !.pc = "delete_expired", !.row = row,
                                  !.user_id = row.user_id, !.path = branch]
                  [] branch = "reuse" ->
                        [@ EXCEPT !.pc = "breach_delete", !.row = row,
                                  !.user_id = row.user_id, !.path = branch]
                  [] branch = "rotate" ->
                        [@ EXCEPT !.pc = "mark", !.row = row,
                                  !.user_id = row.user_id, !.path = branch]]
    /\ UNCHANGED <<users, refresh_tokens, now, nextToken, started, alerts, account>>

\* Step 2: `let _ = delete_token(..).await`, then Err(UNAUTHORIZED); the
\* result of the delete is dropped.
RefreshDeleteExpired(r) ==
    /\ req[r].pc = "delete_expired"
    /\ \/ /\ req' = [req EXCEPT ![r] =
                [Err(@, RefreshStatus("expired")) EXCEPT !.fault = TRUE]]
          /\ UNCHANGED refresh_tokens
       \/ /\ refresh_tokens' = delete_token(refresh_tokens, req[r].token)
          /\ req' = [req EXCEPT ![r] = Err(@, RefreshStatus("expired"))]
    /\ UNCHANGED <<users, now, nextToken, started, alerts, account>>

\* The breach path with the delete left for after the lookup and the mail.
RefreshBreachDelete_deferred(r) ==
    /\ req[r].pc = "breach_delete"
    /\ \/ req' = [req EXCEPT ![r] = StoreErr(@)]
       \/ req' = [req EXCEPT ![r].pc = "breach_user"]
    /\ UNCHANGED <<users, refresh_tokens, now, nextToken, started, alerts,
                   account>>

\* Step 3, breach path: delete_all_user_tokens(refresh_token.user_id).
RefreshBreachDelete(r) ==
    /\ req[r].pc = "breach_delete"
    /\ \/ /\ req' = [req EXCEPT ![r] = StoreErr(@)]
          /\ UNCHANGED refresh_tokens
       \/ /\ refresh_tokens' =
                delete_all_user_tokens(refresh_tokens, req[r].row.user_id)
          /\ req' = [req EXCEPT ![r].pc = "breach_user"]
    /\ UNCHANGED <<users, now, nextToken, started, alerts, account>>

\* Breach path: find_by_id(refresh_token.user_id), None is Err(500).
RefreshBreachUser(r) ==
    /\ req[r].pc = "breach_user"
    /\ \/ req' = [req EXCEPT ![r] = StoreErr(@)]
       \/ LET user == find_by_id(users, req[r].row.user_id)
          IN  req' = [req EXCEPT ![r] =
                IF user = NoUser
                THEN Err(@, RefreshStatus("no_user"))
                ELSE [@ EXCEPT !.pc = "breach_mail"]]
    /\ UNCHANGED <<users, refresh_tokens, now, nextToken, started, alerts, account>>

\* Breach path: send_security_alert, then Err(UNAUTHORIZED).
RefreshBreachMail(r) ==
    /\ req[r].pc = "breach_mail"
    /\ \E sent \in BOOLEAN :
        /\ alerts' = IF sent THEN alerts \cup {req[r].row.user_id} ELSE alerts
        /\ req' = [req EXCEPT ![r] =
                [Err(@, AlertStatus(sent)) EXCEPT
                    !.mail = IF sent THEN "sent" ELSE "failed"]]
    /\ UNCHANGED <<users, refresh_tokens, now, nextToken, started, account>>

\* Step 4: mark_token_as_used(&payload.refresh_token).
RefreshMark(r) ==
    /\ req[r].pc = "mark"
    /\ \/ /\ req' = [req EXCEPT ![r] = StoreErr(@)]
          /\ UNCHANGED refresh_tokens
       \/ /\ refresh_tokens' = mark_token_as_used(refresh_tokens, req[r].token)
          /\ req' = [req EXCEPT ![r].pc = "create"]
    /\ UNCHANGED <<users, now, nextToken, started, alerts, account>>

\* Steps 5-7: generate_refresh_token, create_token(refresh_token.user_id, ..),
\* generate_token(&refresh_token.user_id, ..), Ok(..).
RefreshCreate(r) ==
    /\ req[r].pc = "create"
    /\ \/ /\ req' = [req EXCEPT ![r] = StoreErr(@)]
          /\ UNCHANGED <<refresh_tokens, nextToken>>
       \/ /\ nextToken <= MaxTokens
          /\ LET new == generate_refresh_token
             IN  /\ refresh_tokens' =
                        create_token(refresh_tokens, req[r].row.user_id, new,
                                     now, req[r].row.session)
                 /\ nextToken' = nextToken + 1
                 /\ req' = [req EXCEPT ![r] =
                        Ok(@, generate_token(req[r].row.user_id, JwtSecret, now),
                           new)]
    /\ UNCHANGED <<users, now, started, alerts, account>>

\* --------------------------------------------------------------- register
\* The ids the id column's default gives new users, in the order given.
UserIds == <<"u1", "u2", "u3", "u4", "u5", "u6", "u7", "u8">>

\* generate_verification_token: Uuid::new_v4, as generate_refresh_token.
generate_verification_token == nextToken

\* register, lines 52-63: the outcome of find_by_username.
RegisterUsernameStatus(found) ==
    CASE found = "none" -> OK
      [] found = "some" -> CONFLICT
      [] found = "err" -> INTERNAL_SERVER_ERROR

StartRegister(r, username, email, password) ==
    /\ Free(r) /\ started < MaxRequests
    /\ started' = started + 1
    /\ req' = [req EXCEPT ![r] = [Idle EXCEPT !.op = "register",
                                              !.pc = "reg_find_email",
                                              !.username = username,
                                              !.email = email,
                                              !.password = password]]
    /\ UNCHANGED <<users, refresh_tokens, now, nextToken, alerts, account>>

\* find_by_email(..).is_some() is Err(CONFLICT), lines 38-50.
RegisterFindEmail(r) ==
    /\ req[r].pc = "reg_find_email"
    /\ \/ req' = [req EXCEPT ![r] = StoreErr(@)]
       \/ req' = [req EXCEPT ![r] =
                IF find_by_email(users, req[r].email) # NoUser
                THEN [Err(@, CONFLICT) EXCEPT !.path = "email_taken"]
                ELSE [@ EXCEPT !.pc = "reg_find_username"]]
    /\ UNCHANGED <<users, refresh_tokens, now, nextToken, started, alerts,
                   account>>

\* find_by_username(..).is_some() is Err(CONFLICT), lines 52-63; then
\* hash_password, lines 65-69.
RegisterFindUsername(r) ==
    /\ req[r].pc = "reg_find_username"
    /\ \/ req' = [req EXCEPT ![r] = StoreErr(@)]
       \/ LET found == find_by_username(users, req[r].username)
              status == RegisterUsernameStatus(found)
          IN  req' = [req EXCEPT ![r] =
                IF status = OK
                THEN [@ EXCEPT !.pc = "reg_create_user"]
                ELSE [Err(@, status) EXCEPT !.path = "username_taken"]]
    /\ UNCHANGED <<users, refresh_tokens, now, nextToken, started, alerts,
                   account>>

\* user_repository.create, lines 71-79; then generate_verification_token and
\* expires_at = Utc::now() + Duration::hours(24), lines 81-82.
RegisterCreateUser(r) ==
    /\ req[r].pc = "reg_create_user"
    /\ \/ /\ req' = [req EXCEPT ![r] = StoreErr(@)]
          /\ UNCHANGED <<users, nextToken, nextUser>>
       \/ /\ ViolatesUnique(users, req[r].username, req[r].email)
          /\ req' = [req EXCEPT ![r] =
                [Err(@, INTERNAL_SERVER_ERROR) EXCEPT !.path = "unique"]]
          /\ UNCHANGED <<users, nextToken, nextUser>>
       \/ /\ ~ViolatesUnique(users, req[r].username, req[r].email)
          /\ nextUser <= Len(UserIds)
          /\ users' = create(users, UserIds[nextUser], req[r].username,
                             req[r].email,
                             hash_password(req[r].password, "s3"))
          /\ nextUser' = nextUser + 1
          /\ nextToken' = nextToken + 1
          /\ req' = [req EXCEPT ![r] =
                [@ EXCEPT !.pc = "reg_create_token",
                          !.user_id = UserIds[nextUser],
                          !.single_use = generate_verification_token,
                          !.expires_at = now + VerificationTtl,
                          !.path = "created"]]
    /\ UNCHANGED <<refresh_tokens, now, started, alerts,
                   email_verification_tokens, password_reset_tokens, mails>>

\* email_verification_repository.create_token, lines 84-94.
RegisterCreateToken(r) ==
    /\ req[r].pc = "reg_create_token"
    /\ \/ /\ req' = [req EXCEPT ![r] = StoreErr(@)]
          /\ UNCHANGED email_verification_tokens
       \/ /\ email_verification_tokens' =
                email_verification_create_token(
                    email_verification_tokens, req[r].user_id,
                    req[r].single_use, req[r].expires_at)
          /\ req' = [req EXCEPT ![r].pc = "reg_send_mail"]
    /\ UNCHANGED <<users, refresh_tokens, now, nextToken, started, alerts,
                   password_reset_tokens, mails, nextUser>>

\* send_verification_email(&user.email, .., &verification_token), lines
\* 96-106: a failed mail is Err(500).
RegisterSendMail(r) ==
    /\ req[r].pc = "reg_send_mail"
    /\ \/ /\ mails' = mails \cup {[kind |-> "verification",
                                    to |-> req[r].email,
                                    token |-> req[r].single_use]}
          /\ req' = [req EXCEPT ![r] = [@ EXCEPT !.pc = "reg_create_refresh",
                                                 !.mail = "sent"]]
       \/ /\ req' = [req EXCEPT ![r] =
                Err([@ EXCEPT !.mail = "failed"], INTERNAL_SERVER_ERROR)]
          /\ UNCHANGED mails
    /\ UNCHANGED <<users, refresh_tokens, now, nextToken, started, alerts,
                   email_verification_tokens, password_reset_tokens, nextUser>>

\* generate_token(&user.id, ..), generate_refresh_token, create_token,
\* Ok(..), lines 108-140.
RegisterCreateRefresh(r) ==
    /\ req[r].pc = "reg_create_refresh"
    /\ \/ /\ req' = [req EXCEPT ![r] = StoreErr(@)]
          /\ UNCHANGED <<refresh_tokens, nextToken>>
       \/ LET new == generate_refresh_token
          IN  /\ refresh_tokens' =
                    create_token(refresh_tokens, req[r].user_id, new, now, new)
              /\ nextToken' = nextToken + 1
              /\ req' = [req EXCEPT ![r] =
                    Ok(@, generate_token(req[r].user_id, JwtSecret, now), new)]
    /\ UNCHANGED <<users, now, started, alerts, account>>

\* ------------------------------------------------------------ verify_email
StartVerify(r, token) ==
    /\ Free(r) /\ started < MaxRequests
    /\ started' = started + 1
    /\ req' = [req EXCEPT ![r] = [Idle EXCEPT !.op = "verify_email",
                                              !.pc = "verify_find",
                                              !.token = token]]
    /\ UNCHANGED <<users, refresh_tokens, now, nextToken, alerts, account>>

\* The expiry check left out: an expired token verifies.
VerifyBranch_no_expiry(found, row, t) ==
    IF ~found THEN "not_found" ELSE "valid"

\* verify_email, lines 229-253: the branch taken on the result of
\* find_by_token.
VerifyBranch(found, row, t) ==
    IF ~found THEN "not_found"
    ELSE IF single_use_is_expired(row, t) THEN "expired"
    ELSE "valid"

\* find_by_token(token), None is Err(NOT_FOUND); then is_expired().
VerifyFind(r) ==
    /\ req[r].pc = "verify_find"
    /\ \/ req' = [req EXCEPT ![r] = StoreErr(@)]
       \/ LET found == HasSingleUse(email_verification_tokens, req[r].token)
              row == email_verification_find_by_token(
                        email_verification_tokens, req[r].token)
              branch == VerifyBranch(found, row, now)
          IN  req' = [req EXCEPT ![r] =
                CASE branch = "not_found" ->
                        [Err(@, NOT_FOUND) EXCEPT !.path = branch]
                  [] branch = "expired" ->
                        [@ EXCEPT !.pc = "verify_delete_expired",
                                  !.user_id = row.user_id, !.path = branch]
                  [] branch = "valid" ->
                        [@ EXCEPT !.pc = "verify_user",
                                  !.user_id = row.user_id, !.path = branch]]
    /\ UNCHANGED <<users, refresh_tokens, now, nextToken, started, alerts,
                   account>>

\* delete_token(token) of the expired token, then Err(GONE), lines 241-253.
VerifyDeleteExpired(r) ==
    /\ req[r].pc = "verify_delete_expired"
    /\ \/ /\ req' = [req EXCEPT ![r] = StoreErr(@)]
          /\ UNCHANGED email_verification_tokens
       \/ /\ email_verification_tokens' =
                email_verification_delete_token(email_verification_tokens,
                                                req[r].token)
          /\ req' = [req EXCEPT ![r] = Err(@, GONE)]
    /\ UNCHANGED <<users, refresh_tokens, now, nextToken, started, alerts,
                   password_reset_tokens, mails, nextUser>>

\* verify_user_email(verification_token.user_id), lines 255-263.
VerifyUser(r) ==
    /\ req[r].pc = "verify_user"
    /\ \/ /\ req' = [req EXCEPT ![r] = StoreErr(@)]
          /\ UNCHANGED users
       \/ /\ users' = verify_user_email(users, req[r].user_id)
          /\ req' = [req EXCEPT ![r].pc = "verify_delete"]
    /\ UNCHANGED <<refresh_tokens, now, nextToken, started, alerts, account>>

\* delete_token(token), then Ok(..), lines 265-277.
VerifyDelete(r) ==
    /\ req[r].pc = "verify_delete"
    /\ \/ /\ req' = [req EXCEPT ![r] = StoreErr(@)]
          /\ UNCHANGED email_verification_tokens
       \/ /\ email_verification_tokens' =
                email_verification_delete_token(email_verification_tokens,
                                                req[r].token)
          /\ req' = [req EXCEPT ![r] = Ok(@, NoAccess, 0)]
    /\ UNCHANGED <<users, refresh_tokens, now, nextToken, started, alerts,
                   password_reset_tokens, mails, nextUser>>

\* --------------------------------------------------------- forgot_password
StartForgot(r, email) ==
    /\ Free(r) /\ started < MaxRequests
    /\ started' = started + 1
    /\ req' = [req EXCEPT ![r] = [Idle EXCEPT !.op = "forgot_password",
                                              !.pc = "forgot_find",
                                              !.email = email]]
    /\ UNCHANGED <<users, refresh_tokens, now, nextToken, alerts, account>>

\* A message that tells the caller the email is not registered.
ForgotMessage_revealing(found) ==
    IF found THEN "If that email exists, a password reset link has been sent."
    ELSE "No account has that email."

\* ForgotPasswordResponse.message, as the handler writes it where no user was
\* found (line 303) and where the mail has gone out (line 334).
ForgotMessage(found) ==
    IF found THEN "If that email exists, a password reset link has been sent."
    ELSE "If that email exists, a password reset link has been sent."

\* find_by_email, None is Ok(..) with the generic message, lines 289-305;
\* then generate_verification_token and expires_at = Utc::now() +
\* Duration::hours(1), lines 309-311.
ForgotFind(r) ==
    /\ req[r].pc = "forgot_find"
    /\ \/ /\ req' = [req EXCEPT ![r] = StoreErr(@)]
          /\ UNCHANGED nextToken
       \/ /\ find_by_email(users, req[r].email) = NoUser
          /\ req' = [req EXCEPT ![r] =
                [Ok(@, NoAccess, 0) EXCEPT !.path = "unknown_email",
                                           !.message = ForgotMessage(FALSE)]]
          /\ UNCHANGED nextToken
       \/ /\ find_by_email(users, req[r].email) # NoUser
          /\ nextToken' = nextToken + 1
          /\ req' = [req EXCEPT ![r] =
                [@ EXCEPT !.pc = "forgot_create",
                          !.user_id = find_by_email(users, req[r].email).id,
                          !.single_use = generate_verification_token,
                          !.expires_at = now + ResetTtl,
                          !.path = "known_email"]]
    /\ UNCHANGED <<users, refresh_tokens, now, started, alerts, account>>

\* password_reset_repository.create_token, lines 313-321.
ForgotCreate(r) ==
    /\ req[r].pc = "forgot_create"
    /\ \/ /\ req' = [req EXCEPT ![r] = StoreErr(@)]
          /\ UNCHANGED password_reset_tokens
       \/ /\ password_reset_tokens' =
                password_reset_create_token(
                    password_reset_tokens, req[r].user_id,
                    req[r].single_use, req[r].expires_at)
          /\ req' = [req EXCEPT ![r].pc = "forgot_mail"]
    /\ UNCHANGED <<users, refresh_tokens, now, nextToken, started, alerts,
                   email_verification_tokens, mails, nextUser>>

\* send_password_reset_email(&user.email, .., &reset_token), lines 323-335.
ForgotMail(r) ==
    /\ req[r].pc = "forgot_mail"
    /\ \/ /\ mails' = mails \cup {[kind |-> "reset", to |-> req[r].email,
                                    token |-> req[r].single_use]}
          /\ req' = [req EXCEPT ![r] =
                [Ok([@ EXCEPT !.mail = "sent"], NoAccess, 0)
                    EXCEPT !.message = ForgotMessage(TRUE)]]
       \/ /\ req' = [req EXCEPT ![r] =
                Err([@ EXCEPT !.mail = "failed"], INTERNAL_SERVER_ERROR)]
          /\ UNCHANGED mails
    /\ UNCHANGED <<users, refresh_tokens, now, nextToken, started, alerts,
                   email_verification_tokens, password_reset_tokens, nextUser>>

\* ---------------------------------------------------------- reset_password
StartReset(r, token, new_password) ==
    /\ Free(r) /\ started < MaxRequests
    /\ started' = started + 1
    /\ req' = [req EXCEPT ![r] = [Idle EXCEPT !.op = "reset_password",
                                              !.pc = "reset_find",
                                              !.token = token,
                                              !.password = new_password]]
    /\ UNCHANGED <<users, refresh_tokens, now, nextToken, alerts, account>>

\* The expiry check left out: an expired token resets the password.
ResetBranch_no_expiry(found, row, t) ==
    IF ~found THEN "not_found" ELSE "valid"

\* reset_password, lines 350-374: the branch taken on the result of
\* find_by_token.
ResetBranch(found, row, t) ==
    IF ~found THEN "not_found"
    ELSE IF single_use_is_expired(row, t) THEN "expired"
    ELSE "valid"

\* find_by_token(&payload.token), None is Err(NOT_FOUND); then is_expired()
\* and, for a token in time, hash_password(&payload.new_password).
ResetFind(r) ==
    /\ req[r].pc = "reset_find"
    /\ \/ req' = [req EXCEPT ![r] = StoreErr(@)]
       \/ LET found == HasSingleUse(password_reset_tokens, req[r].token)
              row == password_reset_find_by_token(password_reset_tokens,
                                                  req[r].token)
              branch == ResetBranch(found, row, now)
          IN  req' = [req EXCEPT ![r] =
                CASE branch = "not_found" ->
                        [Err(@, NOT_FOUND) EXCEPT !.path = branch]
                  [] branch = "expired" ->
                        [@ EXCEPT !.pc = "reset_delete_expired",
                                  !.user_id = row.user_id, !.path = branch]
                  [] branch = "valid" ->
                        [@ EXCEPT !.pc = "reset_update",
                                  !.user_id = row.user_id, !.path = branch]]
    /\ UNCHANGED <<users, refresh_tokens, now, nextToken, started, alerts,
                   account>>

\* delete_token(&payload.token) of the expired token, then Err(GONE).
ResetDeleteExpired(r) ==
    /\ req[r].pc = "reset_delete_expired"
    /\ \/ /\ req' = [req EXCEPT ![r] = StoreErr(@)]
          /\ UNCHANGED password_reset_tokens
       \/ /\ password_reset_tokens' =
                password_reset_delete_token(password_reset_tokens,
                                            req[r].token)
          /\ req' = [req EXCEPT ![r] = Err(@, GONE)]
    /\ UNCHANGED <<users, refresh_tokens, now, nextToken, started, alerts,
                   email_verification_tokens, mails, nextUser>>

\* update_password(reset_token.user_id, &new_password_hash), lines 382-390.
ResetUpdate(r) ==
    /\ req[r].pc = "reset_update"
    /\ \/ /\ req' = [req EXCEPT ![r] = StoreErr(@)]
          /\ UNCHANGED users
       \/ /\ users' = update_password(users, req[r].user_id,
                                       hash_password(req[r].password, "s4"))
          /\ req' = [req EXCEPT ![r].pc = "reset_delete_all"]
    /\ UNCHANGED <<refresh_tokens, now, nextToken, started, alerts, account>>

\* A reset that also ends the sessions of the user: delete_all_user_tokens of
\* the refresh token repository next to that of the reset tokens.
ResetDeleteAll_revoking(r) ==
    /\ req[r].pc = "reset_delete_all"
    /\ \/ /\ req' = [req EXCEPT ![r] = StoreErr(@)]
          /\ UNCHANGED <<password_reset_tokens, refresh_tokens>>
       \/ /\ password_reset_tokens' =
                password_reset_delete_all_user_tokens(password_reset_tokens,
                                                      req[r].user_id)
          /\ refresh_tokens' =
                delete_all_user_tokens(refresh_tokens, req[r].user_id)
          /\ req' = [req EXCEPT ![r] = Ok(@, NoAccess, 0)]
    /\ UNCHANGED <<users, now, nextToken, started, alerts,
                   email_verification_tokens, mails, nextUser>>

\* delete_all_user_tokens(reset_token.user_id), then Ok(..), lines 392-405.
ResetDeleteAll(r) ==
    /\ req[r].pc = "reset_delete_all"
    /\ \/ /\ req' = [req EXCEPT ![r] = StoreErr(@)]
          /\ UNCHANGED password_reset_tokens
       \/ /\ password_reset_tokens' =
                password_reset_delete_all_user_tokens(password_reset_tokens,
                                                      req[r].user_id)
          /\ req' = [req EXCEPT ![r] = Ok(@, NoAccess, 0)]
    /\ UNCHANGED <<users, refresh_tokens, now, nextToken, started, alerts,
                   email_verification_tokens, mails, nextUser>>

\* ------------------------------------------------------------- middleware
\* The Authorization header of a request: absent (scheme "none"), or a value
\* made of a scheme and a token.
NoHeader == [scheme |-> "none", token |-> NoAccess]

\* extract_token_from_headers: the value after "Token ", None (NoAccess)
\* when the header is absent or does not start with "Token ".
extract_token_from_headers(header) ==
    IF header.scheme = "Token" THEN header.token ELSE NoAccess

\* Uuid::parse_str(&claims.sub): the strings that are uuids.
parse_str(sub) == \E i \in DOMAIN UserIds : UserIds[i] = sub

\* RequireAuth::from_request_parts up to its .await, lines 21-35: every Err
\* is UNAUTHORIZED.  JWT_SECRET is set, as for the handlers that sign.
RequireOutcome(header, secret, t) ==
    IF extract_token_from_headers(header) = NoAccess THEN "unauthorized"
    ELSE IF validate_token(extract_token_from_headers(header), secret, t)
                # "Ok" THEN "unauthorized"
    ELSE IF ~parse_str(extract_token_from_headers(header).sub)
        THEN "unauthorized"
    ELSE "lookup"

\* OptionalAuth::from_request_parts up to its .await, lines 55-78: no token,
\* a token that does not validate and a subject that is no uuid are
\* Ok(OptionalAuth(None)).
OptionalOutcome(header, secret, t) ==
    IF extract_token_from_headers(header) = NoAccess THEN "anonymous"
    ELSE IF validate_token(extract_token_from_headers(header), secret, t)
                # "Ok" THEN "anonymous"
    ELSE IF ~parse_str(extract_token_from_headers(header).sub)
        THEN "anonymous"
    ELSE "lookup"

\* What the extractor leaves of the request when it has decided before any
\* store call, or the request waiting for find_by_id.
Extracted(q, outcome, pc) ==
    CASE outcome = "unauthorized" -> Err(q, UNAUTHORIZED)
      [] outcome = "anonymous" ->
            [Ok(q, NoAccess, 0) EXCEPT !.auth = "anonymous"]
      [] outcome = "lookup" ->
            [q EXCEPT !.pc = pc,
                      !.user_id = extract_token_from_headers(q.header).sub]

\* Whether the user has a refresh token that is_valid: a history value the
\* lookup of an extractor leaves in path, read by no code.
SessionOf(user_id) ==
    IF \E row \in refresh_tokens :
            row.user_id = user_id /\ is_valid(row, now)
    THEN "session" ELSE "no_session"

\* GET /api/user: current_user behind RequireAuth.
StartCurrentUser(r, header) ==
    /\ Free(r) /\ started < MaxRequests
    /\ started' = started + 1
    /\ req' = [req EXCEPT ![r] =
            Extracted([Idle EXCEPT !.op = "current_user",
                                   !.header = header],
                      RequireOutcome(header, JwtSecret, now), "auth_find")]
    /\ UNCHANGED <<users, refresh_tokens, now, nextToken, alerts, account>>

\* A lookup that also asks for a refresh token of the user that is_valid.
AuthFind_session_bound(r) ==
    /\ req[r].pc = "auth_find"
    /\ \/ req' = [req EXCEPT ![r] = StoreErr(@)]
       \/ /\ \/ find_by_id(users, req[r].user_id) = NoUser
             \/ SessionOf(req[r].user_id) = "no_session"
          /\ req' = [req EXCEPT ![r] =
                [Err(@, UNAUTHORIZED) EXCEPT
                    !.path = SessionOf(req[r].user_id)]]
       \/ /\ find_by_id(users, req[r].user_id) # NoUser
          /\ SessionOf(req[r].user_id) = "session"
          /\ req' = [req EXCEPT ![r] =
                [Ok(@, NoAccess, 0) EXCEPT
                    !.auth = find_by_id(users, req[r].user_id).id,
                    !.path = SessionOf(req[r].user_id)]]
    /\ UNCHANGED <<users, refresh_tokens, now, nextToken, started, alerts,
                   account>>

\* find_by_id(user_id): Err is 500, None is UNAUTHORIZED, a user is
\* Ok(RequireAuth(user)), middleware.rs 37-45, and current_user answers with
\* that user, auth.rs 210-219.
AuthFind(r) ==
    /\ req[r].pc = "auth_find"
    /\ \/ req' = [req EXCEPT ![r] = StoreErr(@)]
       \/ /\ find_by_id(users, req[r].user_id) = NoUser
          /\ req' = [req EXCEPT ![r] =
                [Err(@, UNAUTHORIZED) EXCEPT
                    !.path = SessionOf(req[r].user_id)]]
       \/ /\ find_by_id(users, req[r].user_id) # NoUser
          /\ req' = [req EXCEPT ![r] =
                [Ok(@, NoAccess, 0) EXCEPT
                    !.auth = find_by_id(users, req[r].user_id).id,
                    !.path = SessionOf(req[r].user_id)]]
    /\ UNCHANGED <<users, refresh_tokens, now, nextToken, started, alerts,
                   account>>

\* A request to a handler behind OptionalAuth (no route of main.rs has one):
\* status 200 stands for Ok(OptionalAuth(..)), auth for what it holds.
StartOptional(r, header) ==
    /\ Free(r) /\ started < MaxRequests
    /\ started' = started + 1
    /\ req' = [req EXCEPT ![r] =
            Extracted([Idle EXCEPT !.op = "optional_auth",
                                   !.header = header],
                      OptionalOutcome(header, JwtSecret, now),
                      "optional_find")]
    /\ UNCHANGED <<users, refresh_tokens, now, nextToken, alerts, account>>

\* find_by_id(user_id): Err is 500, otherwise Ok(OptionalAuth(user)) with
\* the Option the lookup returned, middleware.rs 80-87.
OptionalFind(r) ==
    /\ req[r].pc = "optional_find"
    /\ \/ req' = [req EXCEPT ![r] = StoreErr(@)]
       \/ /\ find_by_id(users, req[r].user_id) = NoUser
          /\ req' = [req EXCEPT ![r] =
                [Ok(@, NoAccess, 0) EXCEPT !.auth = "anonymous"]]
       \/ /\ find_by_id(users, req[r].user_id) # NoUser
          /\ req' = [req EXCEPT ![r] =
                [Ok(@, NoAccess, 0) EXCEPT
                    !.auth = find_by_id(users, req[r].user_id).id]]
    /\ UNCHANGED <<users, refresh_tokens, now, nextToken, started, alerts,
                   account>>

\* ---------------------------------------------------------------- timeout
\* TimeoutLayer (main.rs 90, 113-117) drops the handler's future at the
\* .await it is pending on; handle_timeout_error answers 408.
Abort(r) ==
    /\ InFlight(r)
    /\ req' = [req EXCEPT ![r] = [Err(@, REQUEST_TIMEOUT) EXCEPT
                                        !.pc = "aborted", !.at = req[r].pc]]
    /\ UNCHANGED <<users, refresh_tokens, now, nextToken, started, alerts, account>>

\* ------------------------------------------------------------------ system
\* The store after two registrations and a second login of u1: register and
\* login each leave the refresh token of the session they opened (lines
\* 118-129 and 186-197).  Both users have verified their email, which
\* consumed their verification tokens.
Init ==
    /\ users = {[id |-> "u1", username |-> "n1", email |-> "e1",
                 password_hash |-> hash_password("p1", "s1"),
                 email_verified |-> TRUE],
                [id |-> "u2", username |-> "n2", email |-> "e2",
                 password_hash |-> hash_password("p2", "s2"),
                 email_verified |-> TRUE]}
    /\ refresh_tokens =
            create_token(create_token(create_token({}, "u1", 1, 0, 1),
                                      "u2", 2, 0, 2),
                         "u1", 3, 0, 3)
    /\ now = 0
    /\ req = [r \in Req |-> Idle]
    /\ nextToken = 4
    /\ started = 0
    /\ alerts = {}
    /\ email_verification_tokens = {}
    /\ password_reset_tokens = {}
    /\ mails = {}
    /\ nextUser = 3

\* The clock: Utc::now() as the handlers and the column defaults read it.
Tick ==
    /\ now < MaxTime
    /\ now' = now + 1
    /\ UNCHANGED <<users, refresh_tokens, req, nextToken, started, alerts, account>>

\* The tokens a client may present: any token issued so far, or one (0) that
\* was never issued.
Presentable == 0..(nextToken - 1)

Next ==
    \/ Tick
    \/ \E r \in Req :
        \/ \E login \in Logins : StartLogin(r, login[1], login[2])
        \/ LoginFind(r)
        \/ LoginCreate(r)
        \/ \E token \in Presentable : StartRefresh(r, token)
        \/ RefreshFind(r)
        \/ RefreshDeleteExpired(r)
        \/ RefreshBreachDelete(r)
        \/ RefreshBreachUser(r)
        \/ RefreshBreachMail(r)
        \/ RefreshMark(r)
        \/ RefreshCreate(r)
        \/ \E token \in Presentable : StartLogout(r, token)
        \/ LogoutDelete(r)
        \/ Abort(r)



InitAccountUsers ==
    {[id |-> "u1", username |-> "n1", email |-> "e1",
      password_hash |-> hash_password("p1", "s1"), email_verified |-> FALSE],
     [id |-> "u2", username |-> "n2", email |-> "e2",
      password_hash |-> hash_password("p2", "s2"), email_verified |-> TRUE]}

\* The account lifecycle: registration, email verification and password
\* reset.  The store after two registrations: u1 has not verified its email
\* (its verification token 1 runs out at time 1) and has asked twice for a
\* password reset (token 2 runs out at time 1, token 3 later); u2 has verified
\* its email and has asked once for a reset (token 4); both have logged out.
InitAccount ==
    /\ users = InitAccountUsers
    /\ refresh_tokens = {}
    /\ email_verification_tokens =
            email_verification_create_token({}, "u1", 1, 1)
    /\ password_reset_tokens =
            password_reset_create_token(
                password_reset_create_token(
                    password_reset_create_token({}, "u1", 2, 1),
                    "u1", 3, ResetTtl),
                "u2", 4, ResetTtl)
    /\ now = 0
    /\ req = [r \in Req |-> Idle]
    /\ nextToken = 5
    /\ started = 0
    /\ alerts = {}
    /\ mails = {}
    /\ nextUser = 3

\* The registrations clients send: an email that is taken (e1), a username
\* that is taken with a free email (n1, e3), and two that are free and share
\* the email e3.
Registrations == {<<"n3", "e1">>, <<"n1", "e3">>, <<"n3", "e3">>,
                  <<"n4", "e3">>}

\* The single-use tokens a client may present: those a mail has delivered
\* (token 1, and 2, 3, 4, went out before Init), or one (0) that was never
\* issued.
MailedTokens(kind) == {m.token : m \in {x \in mails : x.kind = kind}}

VerificationPresentable == {0, 1} \cup MailedTokens("verification")

ResetPresentable == {0, 2, 3, 4} \cup MailedTokens("reset")

\* Registration and email verification.
NextRegistration ==
    \/ Tick
    \/ \E r \in Req :
        \/ \E reg \in Registrations : StartRegister(r, reg[1], reg[2], "p3")
        \/ RegisterFindEmail(r)
        \/ RegisterFindUsername(r)
        \/ RegisterCreateUser(r)
        \/ RegisterCreateToken(r)
        \/ RegisterSendMail(r)
        \/ RegisterCreateRefresh(r)
        \/ \E token \in VerificationPresentable : StartVerify(r, token)
        \/ VerifyFind(r)
        \/ VerifyDeleteExpired(r)
        \/ VerifyUser(r)
        \/ VerifyDelete(r)
        \/ Abort(r)

\* The handlers that consume single-use tokens, and forgot_password, which
\* issues them.
NextRecovery ==
    \/ Tick
    \/ \E r \in Req :
        \/ \E token \in VerificationPresentable : StartVerify(r, token)
        \/ VerifyFind(r)
        \/ VerifyDeleteExpired(r)
        \/ VerifyUser(r)
        \/ VerifyDelete(r)
        \/ \E email \in {"e1", "e3"} : StartForgot(r, email)
        \/ ForgotFind(r)
        \/ ForgotCreate(r)
        \/ ForgotMail(r)
        \/ \E token \in ResetPresentable : StartReset(r, token, "p4")
        \/ ResetFind(r)
        \/ ResetDeleteExpired(r)
        \/ ResetUpdate(r)
        \/ ResetDeleteAll(r)
        \/ Abort(r)

\* The handlers that write the users table: register, verify_email and
\* reset_password.
NextUsers ==
    \/ Tick
    \/ \E r \in Req :
        \/ StartRegister(r, "n3", "e3", "p3")
        \/ RegisterFindEmail(r)
        \/ RegisterFindUsername(r)
        \/ RegisterCreateUser(r)
        \/ RegisterCreateToken(r)
        \/ RegisterSendMail(r)
        \/ RegisterCreateRefresh(r)
        \/ \E token \in VerificationPresentable : StartVerify(r, token)
        \/ VerifyFind(r)
        \/ VerifyDeleteExpired(r)
        \/ VerifyUser(r)
        \/ VerifyDelete(r)
        \/ \E token \in {2, 4} : StartReset(r, token, "p4")
        \/ ResetFind(r)
        \/ ResetDeleteExpired(r)
        \/ ResetUpdate(r)
        \/ ResetDeleteAll(r)
        \/ Abort(r)

\* Password reset next to login.  The store of InitAccount where u1 has no
\* verification token but has logged in at time 0: the session of refresh
\* token 1.
InitPassword ==
    /\ users = InitAccountUsers
    /\ refresh_tokens = create_token({}, "u1", 1, 0, 1)
    /\ email_verification_tokens = {}
    /\ password_reset_tokens =
            password_reset_create_token(
                password_reset_create_token(
                    password_reset_create_token({}, "u1", 2, 1),
                    "u1", 3, ResetTtl),
                "u2", 4, ResetTtl)
    /\ now = 0
    /\ req = [r \in Req |-> Idle]
    /\ nextToken = 5
    /\ started = 0
    /\ alerts = {}
    /\ mails = {}
    /\ nextUser = 3

\* The logins clients send here: u1 with the password it registered with and
\* with the password the resets set, u2 with its password.
PasswordLogins == {<<"e1", "p1">>, <<"e1", "p4">>, <<"e2", "p2">>}

NextPassword ==
    \/ Tick
    \/ \E r \in Req :
        \/ \E login \in PasswordLogins : StartLogin(r, login[1], login[2])
        \/ LoginFind(r)
        \/ LoginCreate(r)
        \/ \E token \in ResetPresentable : StartReset(r, token, "p4")
        \/ ResetFind(r)
        \/ ResetDeleteExpired(r)
        \/ ResetUpdate(r)
        \/ ResetDeleteAll(r)
        \/ Abort(r)

\* The extractors next to refresh and logout.  The store after u1 has logged
\* in and refreshed once (token 1 is used, token 2 replaced it) and u2 has
\* logged in (token 3), all at time 0.
InitAuth ==
    /\ users = {[id |-> "u1", username |-> "n1", email |-> "e1",
                 password_hash |-> hash_password("p1", "s1"),
                 email_verified |-> TRUE],
                [id |-> "u2", username |-> "n2", email |-> "e2",
                 password_hash |-> hash_password("p2", "s2"),
                 email_verified |-> TRUE]}
    /\ refresh_tokens =
            create_token(
                create_token(
                    mark_token_as_used(create_token({}, "u1", 1, 0, 1), 1),
                    "u1", 2, 0, 1),
                "u2", 3, 0, 3)
    /\ now = 0
    /\ req = [r \in Req |-> Idle]
    /\ nextToken = 4
    /\ started = 0
    /\ alerts = {}
    /\ email_verification_tokens = {}
    /\ password_reset_tokens = {}
    /\ mails = {}
    /\ nextUser = 3

\* The Authorization headers clients send: none; the access token u1 got at
\* time 0 under the scheme Bearer and under Token; the one u1 got a minute
\* before (time -1); one signed with another key; one whose subject is no
\* uuid; one whose subject is the uuid of no user.
AuthHeaders ==
    {NoHeader,
     [scheme |-> "Bearer", token |-> generate_token("u1", JwtSecret, 0)],
     [scheme |-> "Token", token |-> generate_token("u1", JwtSecret, 0)],
     [scheme |-> "Token", token |-> generate_token("u1", JwtSecret, -1)],
     [scheme |-> "Token", token |-> generate_token("u1", "forged", 0)],
     [scheme |-> "Token", token |-> generate_token("root", JwtSecret, 0)],
     [scheme |-> "Token", token |-> generate_token("u3", JwtSecret, 0)]}

NextAuth ==
    \/ Tick
    \/ \E r \in Req :
        \/ \E header \in AuthHeaders : StartCurrentUser(r, header)
        \/ AuthFind(r)
        \/ \E header \in AuthHeaders : StartOptional(r, header)
        \/ OptionalFind(r)
        \/ \E token \in {1, 2} : StartRefresh(r, token)
        \/ RefreshFind(r)
        \/ RefreshDeleteExpired(r)
        \/ RefreshBreachDelete(r)
        \/ RefreshBreachUser(r)
        \/ RefreshBreachMail(r)
        \/ RefreshMark(r)
        \/ RefreshCreate(r)
        \/ StartLogout(r, 2)
        \/ LogoutDelete(r)
        \/ Abort(r)

\* Login, refresh and current_user for a user whose email is verified or
\* not: the store of InitAuth, with email_verified of u1 either way.
InitVerified ==
    /\ \E verified \in BOOLEAN :
        users = {[id |-> "u1", username |-> "n1", email |-> "e1",
                  password_hash |-> hash_password("p1", "s1"),
                  email_verified |-> verified],
                 [id |-> "u2", username |-> "n2", email |-> "e2",
                  password_hash |-> hash_password("p2", "s2"),
                  email_verified |-> TRUE]}
    /\ refresh_tokens =
            create_token(
                create_token(
                    mark_token_as_used(create_token({}, "u1", 1, 0, 1), 1),
                    "u1", 2, 0, 1),
                "u2", 3, 0, 3)
    /\ now = 0
    /\ req = [r \in Req |-> Idle]
    /\ nextToken = 4
    /\ started = 0
    /\ alerts = {}
    /\ email_verification_tokens = {}
    /\ password_reset_tokens = {}
    /\ mails = {}
    /\ nextUser = 3

\* The logins of u1 sent here, with its password and with a wrong one, and
\* the headers: the access token u1 got at time 0 and one whose subject is
\* the uuid of no user.
VerifiedLogins == {<<"e1", "p1">>, <<"e1", "p2">>}

VerifiedHeaders ==
    {[scheme |-> "Token", token |-> generate_token("u1", JwtSecret, 0)],
     [scheme |-> "Token", token |-> generate_token("u3", JwtSecret, 0)]}

NextVerified ==
    \/ Tick
    \/ \E r \in Req :
        \/ \E login \in VerifiedLogins : StartLogin(r, login[1], login[2])
        \/ LoginFind(r)
        \/ LoginCreate(r)
        \/ \E token \in {1, 2} : StartRefresh(r, token)
        \/ RefreshFind(r)
        \/ RefreshDeleteExpired(r)
        \/ RefreshBreachDelete(r)
        \/ RefreshBreachUser(r)
        \/ RefreshBreachMail(r)
        \/ RefreshMark(r)
        \/ RefreshCreate(r)
        \/ \E header \in VerifiedHeaders : StartCurrentUser(r, header)
        \/ AuthFind(r)
        \/ Abort(r)

\* ================================================================= claims
\* Request r makes a step (its record changes; the clock leaves it alone).
Steps(r) == req'[r] # req[r]

\* Request r's handler returns in this step.
Returns(r) == req[r].pc # "done" /\ req'[r].pc = "done"

\* The step is the store call r was pending on at pc, not the timeout.
Calls(r, pc) == req[r].pc = pc /\ Steps(r) /\ req'[r].pc # "aborted"

NoTokens(q) == q.access_token = NoAccess /\ q.refresh_token = 0

\* C1: of two refresh requests that presented the same token, both read it
\* Active (unused, unexpired), had no store failure and have returned, exactly
\* one has succeeded and the other has failed with 401.
C1_OneWinner ==
    \A r1, r2 \in Req :
        (/\ r1 # r2
         /\ req[r1].op = "refresh" /\ req[r2].op = "refresh"
         /\ req[r1].pc = "done" /\ req[r2].pc = "done"
         /\ req[r1].token = req[r2].token
         /\ req[r1].path = "rotate" /\ req[r2].path = "rotate"
         /\ ~req[r1].fault /\ ~req[r2].fault)
        => \/ req[r1].status = OK /\ req[r2].status = UNAUTHORIZED
           \/ req[r1].status = UNAUTHORIZED /\ req[r2].status = OK

\* C2: a refresh request whose find_by_token read the row with is_used = TRUE
\* never goes on to rotate it, and when it returns it returns no access and no
\* refresh token and not success: its status is 401, or 500 when one of its
\* own store calls returned Err.
C2_UsedNeverRefreshes ==
    [][\A r \in Req :
        (req[r].op = "refresh" /\ req[r].row.is_used /\ Steps(r)) =>
            /\ req'[r].pc \notin {"mark", "create"}
            /\ Returns(r) =>
                /\ NoTokens(req'[r])
                /\ req'[r].status # OK
                /\ ~req'[r].fault => req'[r].status = UNAUTHORIZED
                /\ req'[r].fault =>
                        req'[r].status \in {UNAUTHORIZED, INTERNAL_SERVER_ERROR}
      ]_vars

\* C2 witness: a request presenting a consumed, unexpired token has returned
\* 401 without tokens while the token it presented had been rotated before.
C2_Witness ==
    \E r \in Req :
        /\ req[r].op = "refresh" /\ req[r].pc = "done"
        /\ req[r].path = "reuse"
        /\ req[r].status = UNAUTHORIZED /\ NoTokens(req[r])

\* The rows of a user, and the rows of everybody else.
RowsOf(table, user_id) == {row \in table : row.user_id = user_id}

RowsOfOthers(table, user_id) == {row \in table : row.user_id # user_id}

\* The row the store holds for the token r presents, when r is about to look
\* it up (NoRow when there is none).
Stored(r) == find_by_token(refresh_tokens, req[r].token)

\* C3: a successful refresh returns a refresh token R2 different from the R1
\* it was given; a later refresh with R1 (found consumed and unexpired) takes
\* the breach path, whose delete leaves no refresh token of R1's user in the
\* store (R2 and the tokens of the user's other sessions included) and leaves
\* the rows of every other user as they were; the request then fails with 401
\* (when none of its store calls returned Err).
C3_ReuseLogsOutUser ==
    [][\A r \in Req :
        /\ (Calls(r, "create") /\ req'[r].status = OK) =>
                /\ req'[r].refresh_token # req[r].token
                /\ req'[r].refresh_token # 0
        /\ (/\ req[r].op = "refresh" /\ Calls(r, "find") /\ ~req'[r].fault
            /\ HasToken(refresh_tokens, req[r].token)
            /\ Stored(r).is_used /\ ~(now > Stored(r).expires_at)) =>
                /\ req'[r].pc = "breach_delete"
                /\ req'[r].row = Stored(r)
        /\ (Calls(r, "breach_delete") /\ ~req'[r].fault) =>
                /\ RowsOf(refresh_tokens', req[r].row.user_id) = {}
                /\ RowsOfOthers(refresh_tokens', req[r].row.user_id) =
                        RowsOfOthers(refresh_tokens, req[r].row.user_id)
        /\ (req[r].path = "reuse" /\ Returns(r) /\ ~req'[r].fault) =>
                /\ req'[r].status = UNAUTHORIZED
                /\ NoTokens(req'[r])
      ]_vars

\* C3 witness: R1 = 1 was rotated (token 4 was issued), the second refresh
\* with R1 has returned 401, u1 holds no refresh token (its other session 3 is
\* gone too) and u2 still holds its token 2.
C3_Witness ==
    \E r \in Req :
        /\ req[r].op = "refresh" /\ req[r].pc = "done" /\ req[r].token = 1
        /\ req[r].path = "reuse" /\ req[r].status = UNAUTHORIZED
        /\ nextToken > 4
        /\ RowsOf(refresh_tokens, "u1") = {}
        /\ \E row \in refresh_tokens : row.token = 2 /\ row.user_id = "u2"

\* C4: when a refresh request that has marked its token used is dropped, or
\* fails, before it has created the replacement, the session is not left
\* without an Active refresh token.
C4_AbortKeepsSession ==
    [][\A r \in Req :
        (/\ req[r].pc = "create" /\ Steps(r)
         /\ req'[r].status # OK) =>
            \E row \in refresh_tokens' :
                /\ row.session = req[r].row.session
                /\ ~row.is_used /\ ~(now' > row.expires_at)
      ]_vars

\* C5: a refresh request that finds its token unused and unexpired goes on to
\* rotate it: its mark step sets is_used on that row and changes nothing else,
\* its create step adds exactly one row (unused, unexpired, owned by the
\* token's user, holding the returned refresh token) and removes none, and it
\* returns 200 with that new token and an access token whose subject is that
\* user (when none of its store calls returned Err).
C5_Rotation ==
    [][\A r \in Req :
        /\ (/\ req[r].op = "refresh" /\ Calls(r, "find") /\ ~req'[r].fault
            /\ HasToken(refresh_tokens, req[r].token)
            /\ ~Stored(r).is_used /\ ~(now > Stored(r).expires_at)) =>
                /\ req'[r].pc = "mark"
                /\ req'[r].row = Stored(r)
        /\ (Calls(r, "mark") /\ ~req'[r].fault) =>
                /\ \A row \in refresh_tokens' :
                        row.token = req[r].token => row.is_used
                /\ {row \in refresh_tokens' : row.token # req[r].token} =
                        {row \in refresh_tokens : row.token # req[r].token}
                /\ {row.token : row \in refresh_tokens'} =
                        {row.token : row \in refresh_tokens}
        /\ (Calls(r, "create") /\ ~req'[r].fault) =>
                /\ req'[r].pc = "done" /\ req'[r].status = OK
                /\ refresh_tokens \subseteq refresh_tokens'
                /\ \E row \in refresh_tokens' :
                        /\ refresh_tokens' \ refresh_tokens = {row}
                        /\ row.token = req'[r].refresh_token
                        /\ row.user_id = req[r].row.user_id
                        /\ is_valid(row, now)
                /\ ~HasToken(refresh_tokens, req'[r].refresh_token)
                /\ req'[r].access_token.sub = req[r].row.user_id
        /\ (req[r].path = "rotate" /\ Returns(r) /\ ~req'[r].fault) =>
                req'[r].status = OK
      ]_vars

\* C5 witness: the refresh with token 1 has returned 200 with token 4; the
\* consumed row 1 is still in the store, and row 4 is u1's and unused.
C5_Witness ==
    \E r \in Req :
        /\ req[r].op = "refresh" /\ req[r].pc = "done" /\ req[r].token = 1
        /\ req[r].status = OK /\ req[r].refresh_token = 4
        /\ req[r].access_token.sub = "u1"
        /\ \E row \in refresh_tokens : row.token = 1 /\ row.is_used
        /\ \E row \in refresh_tokens :
                row.token = 4 /\ row.user_id = "u1" /\ ~row.is_used

\* C6: every session (chain of rotations from one login) holds at most one
\* Active (unused, unexpired) refresh token.
C6_OneActivePerSession ==
    \A x, y \in refresh_tokens :
        (/\ x.session = y.session
         /\ ~x.is_used /\ ~(now > x.expires_at)
         /\ ~y.is_used /\ ~(now > y.expires_at)) => x = y

\* C7: a refresh request that finds its token expired goes on to delete that
\* row: the delete removes the row of the presented token and no other (when
\* the store executes it), and the request returns 401 without tokens; no
\* token is generated and no row is added or changed.
C7_ExpiredDeleted ==
    [][\A r \in Req :
        /\ (/\ req[r].op = "refresh" /\ Calls(r, "find") /\ ~req'[r].fault
            /\ HasToken(refresh_tokens, req[r].token)
            /\ now > Stored(r).expires_at) =>
                /\ req'[r].pc = "delete_expired"
                /\ refresh_tokens' = refresh_tokens
        /\ Calls(r, "delete_expired") =>
                /\ req'[r].pc = "done"
                /\ req'[r].status = UNAUTHORIZED /\ NoTokens(req'[r])
                /\ nextToken' = nextToken
                /\ {row \in refresh_tokens' : row.token # req[r].token} =
                        {row \in refresh_tokens : row.token # req[r].token}
                /\ ~req'[r].fault => ~HasToken(refresh_tokens', req[r].token)
                /\ UNCHANGED <<users, alerts>>
      ]_vars

\* C7 witness: the refresh with the expired token 1 has returned 401, row 1
\* is gone and the rows 2 and 3 are still there.
C7_Witness ==
    \E r \in Req :
        /\ req[r].op = "refresh" /\ req[r].pc = "done" /\ req[r].token = 1
        /\ req[r].path = "expired" /\ ~req[r].fault
        /\ req[r].status = UNAUTHORIZED
        /\ {row.token : row \in refresh_tokens} = {2, 3}

\* C8: a refresh request whose token is not in the store returns 401 without
\* tokens from its lookup, and users, refresh_tokens and the mails sent are
\* as before (when the lookup itself did not return Err).
C8_UnknownToken ==
    [][\A r \in Req :
        (/\ req[r].op = "refresh" /\ Calls(r, "find") /\ ~req'[r].fault
         /\ ~HasToken(refresh_tokens, req[r].token)) =>
            /\ req'[r].pc = "done"
            /\ req'[r].status = UNAUTHORIZED /\ NoTokens(req'[r])
            /\ UNCHANGED <<users, refresh_tokens, alerts, nextToken>>
      ]_vars

\* C8 witness: a refresh with a token that was issued and then deleted
\* (token 1 after a logout) has returned 401.
C8_Witness ==
    \E r \in Req :
        /\ req[r].op = "refresh" /\ req[r].pc = "done" /\ req[r].token = 1
        /\ req[r].path = "not_found" /\ req[r].status = UNAUTHORIZED
        /\ ~HasToken(refresh_tokens, 1)

\* C9: on the breach path the alert step answers 401 without tokens whether
\* the mail was sent or failed, and leaves the store as the delete left it:
\* the presented token is not in the store while the request waits for the
\* mail, and the alert step changes no row.
C9_AlertFailureIgnored ==
    /\ [][\A r \in Req :
            Calls(r, "breach_mail") =>
                /\ req'[r].pc = "done"
                /\ req'[r].status = UNAUTHORIZED /\ NoTokens(req'[r])
                /\ req'[r].mail \in {"sent", "failed"}
                /\ UNCHANGED <<users, refresh_tokens, nextToken>>
       ]_vars
    /\ [](\A r \in Req :
            req[r].pc = "breach_mail" => ~HasToken(refresh_tokens, req[r].token))

\* C9 witness: the alert mail failed, the request has returned 401 and the
\* user it concerns (u1, token 1) holds no refresh token.
C9_Witness ==
    \E r \in Req :
        /\ req[r].op = "refresh" /\ req[r].pc = "done" /\ req[r].token = 1
        /\ req[r].mail = "failed" /\ req[r].status = UNAUTHORIZED
        /\ RowsOf(refresh_tokens, "u1") = {}
        /\ alerts = {}

\* The response a client sees: the status and the body.
Response(q) ==
    [status |-> q.status, access_token |-> q.access_token,
     refresh_token |-> q.refresh_token, message |-> q.message]

\* C10: a login that failed on an unknown email and a login that failed on a
\* wrong password have the same response: status 401 and the same (empty) body.
C10_LoginIndistinguishable ==
    \A r1, r2 \in Req :
        (/\ req[r1].op = "login" /\ req[r1].pc = "done"
         /\ req[r2].op = "login" /\ req[r2].pc = "done"
         /\ req[r1].path = "unknown_email"
         /\ req[r2].path = "wrong_password") =>
            /\ Response(req[r1]) = Response(req[r2])
            /\ req[r1].status = UNAUTHORIZED

\* C10 witness: both kinds of failed login have been answered.
C10_Witness ==
    \E r1, r2 \in Req :
        /\ req[r1].op = "login" /\ req[r1].pc = "done"
        /\ req[r2].op = "login" /\ req[r2].pc = "done"
        /\ req[r1].path = "unknown_email"
        /\ req[r2].path = "wrong_password"

\* C11: the create step of a successful login adds exactly one refresh token
\* row, whose token the store did not hold before and which is the one
\* returned, owned by the user who logged in and Active; every row that was
\* in the store (of that user and of the others) is still there unchanged.
C11_LoginKeepsSessions ==
    [][\A r \in Req :
        (Calls(r, "login_create") /\ req'[r].status = OK) =>
            /\ refresh_tokens \subseteq refresh_tokens'
            /\ \E row \in refresh_tokens' :
                    /\ refresh_tokens' \ refresh_tokens = {row}
                    /\ row.token = req'[r].refresh_token
                    /\ row.user_id = req[r].user_id
                    /\ is_valid(row, now)
            /\ ~HasToken(refresh_tokens, req'[r].refresh_token)
            /\ req'[r].refresh_token # 0
      ]_vars

\* C11 witness: u1 has logged in again and got token 4, and the tokens 1, 2
\* and 3 of the sessions opened before are in the store, unused.
C11_Witness ==
    \E r \in Req :
        /\ req[r].op = "login" /\ req[r].pc = "done" /\ req[r].status = OK
        /\ req[r].refresh_token = 4
        /\ \E row \in refresh_tokens : row.token = 4 /\ row.user_id = "u1"
        /\ \A t \in {1, 2, 3} :
                \E row \in refresh_tokens : row.token = t /\ ~row.is_used

\* Nothing is stored and nothing is sent.
StoreAndMailsUnchanged ==
    UNCHANGED <<users, refresh_tokens, email_verification_tokens,
                password_reset_tokens, mails, alerts>>

\* C12: a registration whose email an existing user has is rejected by its
\* first lookup: the handler returns 409 without tokens there, and users, the
\* token tables and the mails sent are as before (when the lookup itself did
\* not return Err).
C12_EmailTaken ==
    [][\A r \in Req :
        (/\ Calls(r, "reg_find_email") /\ ~req'[r].fault
         /\ HasEmail(users, req[r].email)) =>
            /\ req'[r].pc = "done"
            /\ req'[r].status = CONFLICT /\ NoTokens(req'[r])
            /\ StoreAndMailsUnchanged
      ]_vars

\* C12 witness: a registration with the email of u1 has been answered 409,
\* and the store holds the two users it held, no refresh token and no mail.
C12_Witness ==
    \E r \in Req :
        /\ req[r].op = "register" /\ req[r].pc = "done"
        /\ req[r].path = "email_taken" /\ req[r].status = CONFLICT
        /\ {u.id : u \in users} = {"u1", "u2"}
        /\ refresh_tokens = {} /\ mails = {}

\* C13: a registration whose username an existing user has, with an email
\* nobody has, is rejected by its second lookup: the handler returns 409
\* without tokens there, and users, the token tables and the mails sent are
\* as before (when the lookup itself did not fail in the store).
C13_UsernameTaken ==
    [][\A r \in Req :
        (/\ Calls(r, "reg_find_username") /\ ~req'[r].fault
         /\ HasUsername(users, req[r].username)
         /\ ~HasEmail(users, req[r].email)) =>
            /\ req'[r].pc = "done"
            /\ req'[r].status = CONFLICT /\ NoTokens(req'[r])
            /\ StoreAndMailsUnchanged
      ]_vars

\* C14: no two user rows share an email or a username, and a registration
\* whose INSERT meets a row with its email or username (a concurrent
\* registration created it after the lookups) is answered 409 and creates no
\* user.
C14_ConcurrentRegistration ==
    /\ [](\A u1, u2 \in users :
            (u1.email = u2.email \/ u1.username = u2.username) => u1 = u2)
    /\ [][\A r \in Req :
            (/\ Calls(r, "reg_create_user") /\ ~req'[r].fault
             /\ ViolatesUnique(users, req[r].username, req[r].email)) =>
                /\ req'[r].pc = "done"
                /\ req'[r].status = CONFLICT
                /\ users' = users
       ]_vars

\* C15: when the verification mail of a registration fails, the handler
\* returns 500 without tokens, and the store then holds neither the user row
\* nor the verification token this request created.
C15_MailFailureLeavesNoAccount ==
    [][\A r \in Req :
        (Calls(r, "reg_send_mail") /\ req'[r].mail = "failed") =>
            /\ req'[r].pc = "done"
            /\ req'[r].status = INTERNAL_SERVER_ERROR /\ NoTokens(req'[r])
            /\ ~\E u \in users' : u.id = req[r].user_id
            /\ ~HasSingleUse(email_verification_tokens', req[r].single_use)
      ]_vars

\* C16: when a registration returns 200, its access token validates against
\* JWT_SECRET and its subject is the id of the users row that holds the
\* registered email and username (a row created since Init), and the refresh
\* token it returns is stored in a row of that same user id.
C16_RegistrationTokens ==
    [][\A r \in Req :
        (/\ req[r].op = "register" /\ Returns(r)
         /\ req'[r].status = OK) =>
            /\ validate_token(req'[r].access_token, JwtSecret, now) = "Ok"
            /\ \E u \in users' :
                    /\ u.email = req[r].email
                    /\ u.username = req[r].username
                    /\ u.id = req'[r].access_token.sub
                    /\ \E row \in refresh_tokens' :
                            /\ row.token = req'[r].refresh_token
                            /\ row.user_id = u.id
            /\ req'[r].access_token.sub \notin {u.id : u \in InitAccountUsers}
      ]_vars

\* C16 witness: the registration of n3 has returned 200 with an access token
\* for u3, the user row it created, and u3 owns the refresh token returned.
C16_Witness ==
    \E r \in Req :
        /\ req[r].op = "register" /\ req[r].pc = "done"
        /\ req[r].status = OK /\ req[r].access_token.sub = "u3"
        /\ \E u \in users : u.id = "u3" /\ u.username = "n3"
        /\ \E row \in refresh_tokens :
                row.token = req[r].refresh_token /\ row.user_id = "u3"

\* The rows of a single-use token table that belong to a user.
SingleUseOf(table, user_id) == {row \in table : row.user_id = user_id}

\* C17: a registration reads the clock when it has created the user and sets
\* expires_at 24 hours (1440 minutes) later; its store step adds exactly one
\* EmailVerificationToken row, the first of the new user, with that
\* expires_at; the mail step hands the gateway the token of that row, at the
\* address registered, while the row is in the store; and a registration
\* returns 200 only after that mail was sent.
C17_VerificationTokenStored ==
    [][\A r \in Req :
        /\ (Calls(r, "reg_create_user") /\ req'[r].pc = "reg_create_token") =>
                /\ req'[r].expires_at = now + 24 * 60
                /\ SingleUseOf(email_verification_tokens, req'[r].user_id) = {}
        /\ (Calls(r, "reg_create_token") /\ ~req'[r].fault) =>
                /\ SingleUseOf(email_verification_tokens, req[r].user_id) = {}
                /\ email_verification_tokens \subseteq email_verification_tokens'
                /\ \E row \in email_verification_tokens' :
                        /\ email_verification_tokens' \
                                email_verification_tokens = {row}
                        /\ row.user_id = req[r].user_id
                        /\ row.expires_at = req[r].expires_at
                        /\ row.token = req[r].single_use
        /\ (Calls(r, "reg_send_mail") /\ req'[r].mail = "sent") =>
                \E row \in email_verification_tokens :
                    /\ SingleUseOf(email_verification_tokens,
                                   req[r].user_id) = {row}
                    /\ mails' \ mails = {[kind |-> "verification",
                                          to |-> req[r].email,
                                          token |-> row.token]}
        /\ (req[r].op = "register" /\ Returns(r) /\ req'[r].status = OK) =>
                \E m \in mails :
                    /\ m.kind = "verification" /\ m.to = req[r].email
                    /\ m.token = req[r].single_use
        /\ (req[r].op = "register" /\ Steps(r)) =>
                \A m \in mails' \ mails :
                    HasSingleUse(email_verification_tokens, m.token)
      ]_vars

\* C17 witness: the registration of e3 at time 0 has returned 200; the store
\* holds one verification token of u3, which runs out at time 1440, and the
\* one mail sent carries that token to e3.
C17_Witness ==
    \E r \in Req :
        /\ req[r].op = "register" /\ req[r].pc = "done"
        /\ req[r].status = OK /\ req[r].access_token.sub = "u3"
        /\ \E row \in email_verification_tokens :
                /\ SingleUseOf(email_verification_tokens, "u3") = {row}
                /\ row.expires_at = 1440
                /\ mails = {[kind |-> "verification", to |-> "e3",
                             token |-> row.token]}

\* The row the store holds for the verification token r presents.
StoredVerification(r) ==
    email_verification_find_by_token(email_verification_tokens, req[r].token)

\* The users row with one field left out of the comparison.
Except(u, field) == [f \in DOMAIN u \ {field} |-> u[f]]

\* C18: verify_email with token V (when none of its store calls returned
\* Err).  V absent: 404 from the lookup, and users, the token tables and the
\* mails are as before.  V present and expired: the request deletes the row
\* of V and no other and returns 410, and no step of it changes users.  V
\* present and unexpired: the request sets email_verified of V's user, and of
\* nobody else, and changes no other field, then deletes the row of V and no
\* other, and returns 200.
C18_VerifyEmail ==
    [][\A r \in Req :
        /\ (Calls(r, "verify_find") /\ ~req'[r].fault) =>
                /\ StoreAndMailsUnchanged
                /\ ~HasSingleUse(email_verification_tokens, req[r].token) =>
                        /\ req'[r].pc = "done"
                        /\ req'[r].status = NOT_FOUND
                /\ (/\ HasSingleUse(email_verification_tokens, req[r].token)
                    /\ now > StoredVerification(r).expires_at) =>
                        /\ req'[r].pc = "verify_delete_expired"
                        /\ req'[r].user_id = StoredVerification(r).user_id
                /\ (/\ HasSingleUse(email_verification_tokens, req[r].token)
                    /\ ~(now > StoredVerification(r).expires_at)) =>
                        /\ req'[r].pc = "verify_user"
                        /\ req'[r].user_id = StoredVerification(r).user_id
        /\ (Calls(r, "verify_delete_expired") /\ ~req'[r].fault) =>
                /\ req'[r].pc = "done" /\ req'[r].status = GONE
                /\ email_verification_tokens' =
                        {row \in email_verification_tokens :
                            row.token # req[r].token}
                /\ users' = users
        /\ (Calls(r, "verify_user") /\ ~req'[r].fault) =>
                /\ req'[r].pc = "verify_delete"
                /\ \A u \in users : u.id = req[r].user_id =>
                        [u EXCEPT !.email_verified = TRUE] \in users'
                /\ {u \in users' : u.id # req[r].user_id} =
                        {u \in users : u.id # req[r].user_id}
                /\ {Except(u, "email_verified") : u \in users'} =
                        {Except(u, "email_verified") : u \in users}
                /\ email_verification_tokens' = email_verification_tokens
        /\ (Calls(r, "verify_delete") /\ ~req'[r].fault) =>
                /\ req'[r].pc = "done" /\ req'[r].status = OK
                /\ email_verification_tokens' =
                        {row \in email_verification_tokens :
                            row.token # req[r].token}
                /\ users' = users
                /\ \A u \in users : u.id = req[r].user_id => u.email_verified
      ]_vars

\* C18 witness: the verification with token 1, in time, has returned 200; u1
\* is verified and token 1 is gone.
C18_Witness ==
    \E r \in Req :
        /\ req[r].op = "verify_email" /\ req[r].pc = "done"
        /\ req[r].token = 1 /\ req[r].path = "valid" /\ req[r].status = OK
        /\ \E u \in users : u.id = "u1" /\ u.email_verified
        /\ ~HasSingleUse(email_verification_tokens, 1)

\* The table a handler looks its single-use token up in.
SingleUseTable(op) ==
    IF op = "verify_email" THEN email_verification_tokens
    ELSE password_reset_tokens

\* Request q presented a single-use token and has been answered with success
\* or with 410.
Consumed(q) ==
    /\ q.op \in {"verify_email", "reset_password"}
    /\ q.pc = "done" /\ q.status \in {OK, GONE}

\* C19: while a verify_email or reset_password request stands answered with
\* 200 or 410, the token it presented is not in its table; and a request of
\* the same kind that looks the same token up after that answer gets 404
\* (when the lookup itself did not return Err).
C19_ConsumedIsGone ==
    /\ [](\A r \in Req :
            Consumed(req[r]) =>
                ~HasSingleUse(SingleUseTable(req[r].op), req[r].token))
    /\ [][\A r1, r2 \in Req :
            (/\ Consumed(req[r1])
             /\ req[r2].op = req[r1].op /\ req[r2].token = req[r1].token
             /\ req[r2].pc \in {"verify_find", "reset_find"}
             /\ Steps(r2) /\ req'[r2].pc # "aborted"
             /\ ~req'[r2].fault) =>
                /\ req'[r2].pc = "done"
                /\ req'[r2].status = NOT_FOUND
       ]_vars

\* C19 witness: a reset_password with token 2 was answered 410 (the token
\* had run out), and a second one with the same token, sent after that
\* answer, was answered 404.
C19_Witness ==
    \E r1, r2 \in Req :
        /\ req[r1].op = "reset_password" /\ req[r1].pc = "done"
        /\ req[r1].token = 2 /\ req[r1].status = GONE
        /\ req[r2].op = "reset_password" /\ req[r2].pc = "done"
        /\ req[r2].token = 2 /\ req[r2].status = NOT_FOUND

\* C20: a users row is created with email_verified = FALSE, and no step
\* takes a user whose email_verified is TRUE to FALSE or removes the user.
C20_EmailVerifiedMonotonic ==
    [][/\ \A u \in users' :
            (u.id \notin {old.id : old \in users}) => ~u.email_verified
       /\ \A old \in users :
            old.email_verified =>
                \E u \in users' : u.id = old.id /\ u.email_verified
      ]_vars

\* C20 witness: u1, unverified in the beginning, is verified, and a password
\* reset of u1 answered 200 has since replaced its password hash.
C20_Witness ==
    \E r \in Req :
        /\ req[r].op = "reset_password" /\ req[r].pc = "done"
        /\ req[r].token = 2 /\ req[r].status = OK
        /\ \E u \in users :
                /\ u.id = "u1" /\ u.email_verified
                /\ verify_password("p4", u.password_hash)

\* A forgot_password request that has been answered.
ForgotAnswered(q) == q.op = "forgot_password" /\ q.pc = "done"

C22_ForgotCreatesAndDelivers ==
    [][\A r \in Req :
        (/\ req[r].op = "forgot_password" /\ Steps(r)
         /\ req'[r].pc # "aborted" /\ ~req'[r].fault)
        => /\ (req[r].pc = "forgot_find"
                    /\ find_by_email(users, req[r].email) = NoUser)
                => /\ req'[r].pc = "done" /\ req'[r].status = OK
                   /\ StoreAndMailsUnchanged
           /\ (req[r].pc = "forgot_find"
                    /\ find_by_email(users, req[r].email) # NoUser)
                => /\ req'[r].pc = "forgot_create"
                   /\ req'[r].expires_at = now + 60
                   /\ req'[r].user_id
                        = find_by_email(users, req[r].email).id
                   /\ ~HasSingleUse(password_reset_tokens,
                                    req'[r].single_use)
                   /\ StoreAndMailsUnchanged
           /\ req[r].pc = "forgot_create"
                => /\ password_reset_tokens' =
                        password_reset_tokens
                            \cup {[token |-> req[r].single_use,
                                   user_id |-> req[r].user_id,
                                   expires_at |-> req[r].expires_at]}
                   /\ Cardinality(password_reset_tokens') =
                        Cardinality(password_reset_tokens) + 1
                   /\ UNCHANGED <<users, refresh_tokens, mails,
                                  email_verification_tokens>>
           /\ (req[r].pc = "forgot_mail" /\ req'[r].mail = "sent")
                => /\ mails' \ mails =
                        {[kind |-> "reset",
                          to |-> find_by_id(users, req[r].user_id).email,
                          token |-> req[r].single_use]}
                   /\ mails \subseteq mails'
                   /\ req'[r].status = OK
                   /\ UNCHANGED <<users, refresh_tokens,
                                  password_reset_tokens,
                                  email_verification_tokens>>
      ]_vars

\* C22 witness: a forgot_password for e1, started at time 0 and answered 200,
\* has added token 5 of u1, running out at 60, next to the two tokens u1
\* had, and a mail has taken token 5 to e1.
C22_Witness ==
    \E r \in Req :
        /\ ForgotAnswered(req[r]) /\ req[r].status = OK
        /\ req[r].mail = "sent"
        /\ [token |-> 5, user_id |-> "u1", expires_at |-> 60]
                \in password_reset_tokens
        /\ Cardinality(SingleUseOf(password_reset_tokens, "u1")) = 3
        /\ [kind |-> "reset", to |-> "e1", token |-> 5] \in mails

\* The row of the reset token a request presented, as the store has it.
StoredReset(r) ==
    password_reset_find_by_token(password_reset_tokens, req[r].token)

\* C23: reset_password with token P (when none of its store calls returned
\* Err).  P absent: 404 from the lookup, and users, the token tables and the
\* mails are as before.  P present and expired: the request deletes the row
\* of P and no other and returns 410, and no step of it changes users.  P
\* present and unexpired: the request replaces the password hash of P's user,
\* and of no other user, by a hash the new password verifies against, changes
\* no other field, and returns 200.
C23_ResetPassword ==
    [][\A r \in Req :
        /\ (Calls(r, "reset_find") /\ ~req'[r].fault) =>
                /\ StoreAndMailsUnchanged
                /\ ~HasSingleUse(password_reset_tokens, req[r].token) =>
                        /\ req'[r].pc = "done"
                        /\ req'[r].status = NOT_FOUND
                /\ (/\ HasSingleUse(password_reset_tokens, req[r].token)
                    /\ now > StoredReset(r).expires_at) =>
                        /\ req'[r].pc = "reset_delete_expired"
                        /\ req'[r].user_id = StoredReset(r).user_id
                /\ (/\ HasSingleUse(password_reset_tokens, req[r].token)
                    /\ ~(now > StoredReset(r).expires_at)) =>
                        /\ req'[r].pc = "reset_update"
                        /\ req'[r].user_id = StoredReset(r).user_id
        /\ (Calls(r, "reset_delete_expired") /\ ~req'[r].fault) =>
                /\ req'[r].pc = "done" /\ req'[r].status = GONE
                /\ password_reset_tokens' =
                        {row \in password_reset_tokens :
                            row.token # req[r].token}
                /\ users' = users
        /\ (Calls(r, "reset_update") /\ ~req'[r].fault) =>
                /\ req'[r].pc = "reset_delete_all"
                /\ \A u \in users' : u.id = req[r].user_id =>
                        verify_password(req[r].password, u.password_hash)
                /\ {u \in users' : u.id # req[r].user_id} =
                        {u \in users : u.id # req[r].user_id}
                /\ {Except(u, "password_hash") : u \in users'} =
                        {Except(u, "password_hash") : u \in users}
        /\ (Calls(r, "reset_delete_all") /\ ~req'[r].fault) =>
                /\ req'[r].pc = "done" /\ req'[r].status = OK
                /\ users' = users
                /\ \A u \in users : u.id = req[r].user_id =>
                        verify_password(req[r].password, u.password_hash)
      ]_vars

\* C23 witness: the reset with the expired token 2 of u1 has returned 410,
\* token 2 is gone and p1 is still the password of u1; the reset with token
\* 4 has returned 200 and p4 is the password of u2.
C23_Witness ==
    \E r1, r2 \in Req :
        /\ req[r1].op = "reset_password" /\ req[r1].pc = "done"
        /\ req[r1].token = 2 /\ req[r1].status = GONE
        /\ ~HasSingleUse(password_reset_tokens, 2)
        /\ HasSingleUse(password_reset_tokens, 3)
        /\ \E u \in users :
                u.id = "u1" /\ verify_password("p1", u.password_hash)
        /\ req[r2].op = "reset_password" /\ req[r2].pc = "done"
        /\ req[r2].token = 4 /\ req[r2].status = OK
        /\ \E u \in users :
                u.id = "u2" /\ verify_password("p4", u.password_hash)

\* C24: the last store step of a reset_password for user U, when it returns
\* Ok, leaves no PasswordResetToken of U, neither the one presented nor
\* another, leaves the rows of every other user as they were, and ends the
\* request with 200; the step before it, which writes the password, changes
\* no PasswordResetToken.
C24_ResetDeletesAllOfUser ==
    [][\A r \in Req :
        /\ (Calls(r, "reset_delete_all") /\ ~req'[r].fault) =>
                /\ req'[r].pc = "done" /\ req'[r].status = OK
                /\ SingleUseOf(password_reset_tokens', req[r].user_id) = {}
                /\ password_reset_tokens' =
                        {row \in password_reset_tokens :
                            row.user_id # req[r].user_id}
        /\ Calls(r, "reset_update") =>
                password_reset_tokens' = password_reset_tokens
      ]_vars

\* C24 witness: the reset with token 3 of u1 has returned 200; token 3 and
\* its sibling 2 are gone, token 4 of u2 is in the store.
C24_Witness ==
    \E r \in Req :
        /\ req[r].op = "reset_password" /\ req[r].pc = "done"
        /\ req[r].token = 3 /\ req[r].status = OK
        /\ SingleUseOf(password_reset_tokens, "u1") = {}
        /\ SingleUseOf(password_reset_tokens, "u2") =
                {[token |-> 4, user_id |-> "u2", expires_at |-> ResetTtl]}

\* C25: no step of a reset_password request, whatever its outcome, adds,
\* removes or changes a row of refresh_tokens; so a refresh token that is
\* valid when a reset returns 200 was valid before that step and is the same
\* row after it.
C25_ResetKeepsRefreshTokens ==
    [][\A r \in Req :
        (req[r].op = "reset_password" /\ Steps(r))
        => /\ refresh_tokens' = refresh_tokens
           /\ \A row \in refresh_tokens :
                (row.user_id = req[r].user_id /\ is_valid(row, now))
                => row \in refresh_tokens' /\ is_valid(row, now')
      ]_vars

\* C25 witness: the reset with token 3 of u1 has returned 200 and p4 is the
\* password of u1, while refresh token 1, which u1 had before, is valid.
C25_Witness ==
    \E r \in Req :
        /\ req[r].op = "reset_password" /\ req[r].pc = "done"
        /\ req[r].token = 3 /\ req[r].status = OK
        /\ \E u \in users :
                u.id = "u1" /\ verify_password("p4", u.password_hash)
        /\ HasToken(refresh_tokens, 1)
        /\ find_by_token(refresh_tokens, 1).user_id = "u1"
        /\ is_valid(find_by_token(refresh_tokens, 1), now)

\* C26: the store step of a logout, when it returns Ok, removes from
\* refresh_tokens the rows whose token is the value presented and no other
\* row: the rows of other users and the other sessions of the same user are
\* in the table as they were.  The request changes nothing else.
C26_LogoutDeletesOnlyPresented ==
    [][\A r \in Req :
        /\ (Calls(r, "logout_delete") /\ ~req'[r].fault) =>
                /\ req'[r].pc = "done" /\ req'[r].status = OK
                /\ refresh_tokens' =
                        {row \in refresh_tokens : row.token # req[r].token}
                /\ \A row \in refresh_tokens :
                        row.token # req[r].token => row \in refresh_tokens'
                /\ UNCHANGED <<users, alerts>>
        /\ (req[r].op = "logout" /\ Steps(r) /\ req'[r].fault) =>
                refresh_tokens' = refresh_tokens
      ]_vars

\* C26 witness: the logout with token 1 of u1 has returned 200; token 1 is
\* gone, the other session of u1 (token 3) and that of u2 (token 2) are
\* unused in the store.
C26_Witness ==
    \E r \in Req :
        /\ req[r].op = "logout" /\ req[r].pc = "done"
        /\ req[r].token = 1 /\ req[r].status = OK
        /\ ~HasToken(refresh_tokens, 1)
        /\ HasToken(refresh_tokens, 3)
        /\ find_by_token(refresh_tokens, 3).user_id = "u1"
        /\ ~find_by_token(refresh_tokens, 3).is_used
        /\ HasToken(refresh_tokens, 2)
        /\ Cardinality(refresh_tokens) = 2

\* Request r is accepted in this step, with an Authorization header of the
\* scheme Token whose token is signed with JWT_SECRET.
Presents(r, op) ==
    /\ Free(r) /\ Steps(r) /\ req'[r].op = op
    /\ req'[r].header.scheme = "Token"
    /\ req'[r].header.token.key = JwtSecret

\* C27: an access token issued at time t has iat = t and exp = t + 60 s (one
\* minute of the clock); a request that presents it at a time after exp is
\* rejected with 401 and does not reach the lookup of the user; one that
\* reaches the lookup presented it at a time not after exp.
C27_ExpiresSixtySecondsAfterIssue ==
    [][\A r \in Req :
        /\ (Returns(r) /\ req'[r].access_token # NoAccess) =>
                /\ req'[r].access_token.iat = now
                /\ req'[r].access_token.exp = now + 1
        /\ Presents(r, "current_user") =>
                /\ now > req'[r].header.token.exp =>
                        /\ req'[r].pc = "done"
                        /\ req'[r].status = UNAUTHORIZED
                /\ req'[r].pc = "auth_find" =>
                        now <= req'[r].header.token.exp
      ]_vars

\* C28: whether current_user authenticates is decided by the token, the
\* secret, the clock and the users table, whatever refresh_tokens holds.  A
\* request that presents, under the scheme Token, a token signed with
\* JWT_SECRET, not past its exp and with a uuid as subject, reaches the lookup
\* of the user; the lookup (when it does not return Err) answers 200 with
\* that user exactly when users has a row of that id, and 401 otherwise, also
\* when the user has no valid refresh token left; and no step of the request
\* changes refresh_tokens.
C28_AccessTokenNotRevocable ==
    [][\A r \in Req :
        /\ (/\ Presents(r, "current_user")
            /\ now <= req'[r].header.token.exp
            /\ parse_str(req'[r].header.token.sub)) =>
                /\ req'[r].pc = "auth_find"
                /\ req'[r].user_id = req'[r].header.token.sub
        /\ (Calls(r, "auth_find") /\ ~req'[r].fault) =>
                /\ req'[r].pc = "done"
                /\ (\E u \in users : u.id = req[r].user_id) =>
                        /\ req'[r].status = OK
                        /\ req'[r].auth = req[r].user_id
                /\ ~(\E u \in users : u.id = req[r].user_id) =>
                        req'[r].status = UNAUTHORIZED
        /\ (req'[r].op = "current_user" /\ Steps(r)) =>
                refresh_tokens' = refresh_tokens
      ]_vars

\* C28 witness: the refresh with the used token 1 has taken the breach path
\* and u1 has no refresh token; a current_user with the access token of u1,
\* not past its exp, looked u1 up when u1 had no valid refresh token and was
\* answered 200 as u1.
C28_Witness ==
    \E r1, r2 \in Req :
        /\ req[r1].op = "refresh" /\ req[r1].pc = "done"
        /\ req[r1].token = 1 /\ req[r1].path = "reuse"
        /\ RowsOf(refresh_tokens, "u1") = {}
        /\ req[r2].op = "current_user" /\ req[r2].pc = "done"
        /\ req[r2].status = OK /\ req[r2].auth = "u1"
        /\ req[r2].path = "no_session"
        /\ now <= req[r2].header.token.exp

\* C29: OptionalAuth never answers 401.  A request without Authorization
\* header, with a header of another scheme than Token, with a token not
\* signed with JWT_SECRET, with a token past its exp or with a subject that is
\* no uuid is Anonymous without a lookup; the lookup (when it does not return
\* Err) yields the user of the subject when users has that row and Anonymous
\* when it has not.
C29_OptionalAuthNeverRejects ==
    [][\A r \in Req :
        /\ (Free(r) /\ Steps(r) /\ req'[r].op = "optional_auth") =>
                /\ req'[r].status # UNAUTHORIZED
                /\ (\/ req'[r].header.scheme # "Token"
                    \/ req'[r].header.token.key # JwtSecret
                    \/ now > req'[r].header.token.exp
                    \/ ~parse_str(req'[r].header.token.sub)) =>
                        /\ req'[r].pc = "done" /\ req'[r].status = OK
                        /\ req'[r].auth = "anonymous"
        /\ (Calls(r, "optional_find") /\ ~req'[r].fault) =>
                /\ req'[r].pc = "done" /\ req'[r].status = OK
                /\ req'[r].auth =
                        IF \E u \in users : u.id = req[r].user_id
                        THEN req[r].user_id ELSE "anonymous"
      ]_vars

\* C30: a request one of whose store calls returned Err stands answered with
\* 500, never with success or with a 4xx status.
C30_StoreFailureIsInternal ==
    \A r \in Req :
        (req[r].pc = "done" /\ req[r].fault)
        => req[r].status = INTERNAL_SERVER_ERROR

\* Request q is a refresh that took the breach path and whose store calls
\* all returned Ok: it has deleted every refresh token of its user.
Breached(q) ==
    /\ q.op = "refresh" /\ q.pc = "done" /\ q.path = "reuse" /\ ~q.fault

\* C31: when a refresh has taken the breach path for u1 (the refresh tokens
\* presented here, 1 and 2, are those of u1) and no request is in flight any
\* more, u1 has no valid refresh token.  No login runs here, so every row
\* descends from a session older than the breach.
C31_BreachEndsSessions ==
    \A r \in Req :
        (Breached(req[r]) /\ \A other \in Req : ~InFlight(other))
        => \A row \in refresh_tokens :
                row.user_id = "u1" => ~is_valid(row, now)

\* A logout of token T stands answered with 200.
LoggedOut(T) ==
    \E l \in Req :
        /\ req[l].op = "logout" /\ req[l].pc = "done"
        /\ req[l].status = OK /\ req[l].token = T

\* The session of refresh token 2 (that of token 1, which it replaced) has a
\* valid refresh token.
SessionAlive ==
    \E row \in refresh_tokens : row.session = 1 /\ is_valid(row, now)

C33_SingleUseOnce ==
    \A r1, r2 \in Req :
        (/\ r1 # r2
         /\ req[r1].op \in {"verify_email", "reset_password"}
         /\ req[r2].op = req[r1].op /\ req[r2].token = req[r1].token
         /\ req[r1].pc = "done" /\ req[r2].pc = "done")
        => ~(req[r1].status = OK /\ req[r2].status = OK)

\* C34: a refresh whose lookup (not returning Err) finds its token used and
\* expired takes the expired path, not the breach path; its delete, when it
\* returns Ok, removes the rows of that token and no other row, also none of
\* the same user; the request is answered 401 without tokens, and no step of
\* it sends an alert.
C34_ExpiryBeforeReuse ==
    [][\A r \in Req :
        /\ (/\ Calls(r, "find") /\ ~req'[r].fault
            /\ HasToken(refresh_tokens, req[r].token)
            /\ Stored(r).is_used /\ now > Stored(r).expires_at) =>
                /\ req'[r].pc = "delete_expired"
                /\ UNCHANGED <<refresh_tokens, alerts>>
        /\ (/\ Calls(r, "delete_expired") /\ ~req'[r].fault
            /\ req[r].row.is_used) =>
                /\ req'[r].pc = "done" /\ req'[r].status = UNAUTHORIZED
                /\ NoTokens(req'[r])
                /\ refresh_tokens' =
                        {row \in refresh_tokens : row.token # req[r].token}
                /\ alerts' = alerts
      ]_vars

\* C34 witness: the refresh with token 1, used and by now expired, has
\* answered 401 on the expired path; token 1 is gone, token 2 of the same
\* user is in the store and no alert went out.
C34_Witness ==
    \E r \in Req :
        /\ req[r].op = "refresh" /\ req[r].pc = "done"
        /\ req[r].token = 1 /\ req[r].path = "expired"
        /\ req[r].status = UNAUTHORIZED /\ ~req[r].fault
        /\ ~HasToken(refresh_tokens, 1)
        /\ HasToken(refresh_tokens, 2)
        /\ find_by_token(refresh_tokens, 2).user_id = "u1"
        /\ alerts = {}

\* No request but r has been accepted.
Alone(r) == \A other \in Req \ {r} : req[other].op = "none"

\* C35: on the breach path the delete comes first: when it returns Ok the
\* user has no refresh token, the rows of other users are as before and no
\* alert has gone out; the lookup of the user and the alert, which follow,
\* change no refresh token, the lookup sends no alert, and whatever they
\* answer, 401 or 500, a request that ran alone leaves its user without
\* refresh tokens.
C35_BreachDeletesFirst ==
    [][\A r \in Req :
        /\ (Calls(r, "breach_delete") /\ ~req'[r].fault) =>
                /\ req'[r].pc = "breach_user"
                /\ RowsOf(refresh_tokens', req[r].row.user_id) = {}
                /\ RowsOfOthers(refresh_tokens', req[r].row.user_id) =
                        RowsOfOthers(refresh_tokens, req[r].row.user_id)
                /\ alerts' = alerts
        /\ (Calls(r, "breach_user") \/ Calls(r, "breach_mail")) =>
                /\ refresh_tokens' = refresh_tokens
                /\ Alone(r) =>
                        RowsOf(refresh_tokens', req[r].row.user_id) = {}
                /\ Returns(r) =>
                        /\ req'[r].status
                                \in {UNAUTHORIZED, INTERNAL_SERVER_ERROR}
                        /\ NoTokens(req'[r])
        /\ Calls(r, "breach_user") =>
                /\ alerts' = alerts
                /\ (Returns(r) /\ req'[r].fault) =>
                        req'[r].status = INTERNAL_SERVER_ERROR
        /\ Calls(r, "breach_mail") =>
                /\ req'[r].pc = "done"
                /\ req'[r].status = UNAUTHORIZED
      ]_vars

\* C35 witness: the refresh with the used token 1, the only request so far,
\* has deleted the refresh tokens of u1, then its lookup of the user returned
\* Err: it is answered 500 and u1 has no refresh token.
C35_Witness ==
    \E r \in Req :
        /\ Alone(r)
        /\ req[r].op = "refresh" /\ req[r].pc = "done"
        /\ req[r].token = 1 /\ req[r].path = "reuse"
        /\ req[r].fault /\ req[r].status = INTERNAL_SERVER_ERROR
        /\ RowsOf(refresh_tokens, "u1") = {}
        /\ RowsOf(refresh_tokens, "u2") # {}
        /\ alerts = {}

\* Request r, in this step, makes a store call that deletes row: the delete
\* of a logout of the row's token, the delete of the breach path for the
\* row's user, or the delete of the expired path for the row's token.
Removes(r, row) ==
    \/ Calls(r, "logout_delete") /\ req[r].token = row.token
    \/ Calls(r, "breach_delete") /\ req[r].row.user_id = row.user_id
    \/ Calls(r, "delete_expired") /\ req[r].token = row.token

\* C36: a refresh token row that is used is, after any step, in the store
\* as it was, still used, unless the step is a delete of one of the three
\* kinds above, and then no row has its token; no step leaves a row of its
\* token that is not used.
C36_IsUsedMonotonic ==
    [][\A row \in refresh_tokens :
        row.is_used =>
            /\ \/ row \in refresh_tokens'
               \/ /\ ~HasToken(refresh_tokens', row.token)
                  /\ \E r \in Req : Removes(r, row)
            /\ \A new \in refresh_tokens' :
                    new.token = row.token => new.is_used
      ]_vars

\* C36 witness: the refresh with token 2 has rotated it; the consumed rows
\* of tokens 1 and 2 are in the store next to the replacement 4.
C36_Witness ==
    \E r \in Req :
        /\ req[r].op = "refresh" /\ req[r].pc = "done"
        /\ req[r].token = 2 /\ req[r].status = OK
        /\ HasToken(refresh_tokens, 1)
        /\ find_by_token(refresh_tokens, 1).is_used
        /\ HasToken(refresh_tokens, 2)
        /\ find_by_token(refresh_tokens, 2).is_used
        /\ HasToken(refresh_tokens, 4)
        /\ ~find_by_token(refresh_tokens, 4).is_used

\* The user of a reset token of InitPassword: 2 and 3 are of u1, 4 of u2.
ResetOwner(T) == IF T \in {2, 3} THEN "u1" ELSE "u2"

\* A reset_password for user U stands answered with 200 (every reset here
\* sets the password p4).
ResetDone(U) ==
    \E q \in Req :
        /\ req[q].op = "reset_password" /\ req[q].pc = "done"
        /\ req[q].status = OK /\ ResetOwner(req[q].token) = U

\* C37: while a reset_password of user U stands answered with 200, a login
\* with U's email whose lookup does not return Err passes the password check
\* when it brings the new password p4 and is answered 401 without tokens
\* when it brings another one, U's password before the reset included; the
\* login that passed is answered 200 with a token pair of U when its insert
\* returns Ok.
C37_LoginAfterReset ==
    [][\A r \in Req :
        /\ (/\ Calls(r, "login_find") /\ ~req'[r].fault
            /\ find_by_email(users, req[r].email) # NoUser
            /\ ResetDone(find_by_email(users, req[r].email).id)) =>
                /\ req[r].password = "p4" =>
                        /\ req'[r].pc = "login_create"
                        /\ req'[r].user_id =
                                find_by_email(users, req[r].email).id
                /\ req[r].password # "p4" =>
                        /\ req'[r].pc = "done"
                        /\ req'[r].status = UNAUTHORIZED
                        /\ NoTokens(req'[r])
        /\ (Calls(r, "login_create") /\ ~req'[r].fault) =>
                /\ req'[r].pc = "done" /\ req'[r].status = OK
                /\ req'[r].access_token.sub = req[r].user_id
                /\ \E row \in refresh_tokens' :
                        /\ row.token = req'[r].refresh_token
                        /\ row.user_id = req[r].user_id
      ]_vars

\* C37 witness: the reset with token 3 of u1 has returned 200 and a login
\* with e1 and p4 has returned 200 with the token pair of a new session of
\* u1.
C37_Witness ==
    \E r1, r2 \in Req :
        /\ req[r1].op = "reset_password" /\ req[r1].pc = "done"
        /\ req[r1].token = 3 /\ req[r1].status = OK
        /\ req[r2].op = "login" /\ req[r2].pc = "done"
        /\ req[r2].status = OK /\ req[r2].access_token.sub = "u1"
        /\ req[r2].refresh_token = 5
        /\ HasToken(refresh_tokens, 5)

\* The users table of the run that differs in email_verified only: every
\* flag the other way round.
Twin == {[u EXCEPT !.email_verified = ~u.email_verified] : u \in users}

\* C38: each step of a login, a refresh or a current_user that reads the
\* users table (its store call not returning Err) has the outcome the same
\* step has on the table with every email_verified the other way round: the
\* same branch, the same status, the same user authenticated; the steps that
\* issue tokens issue them for a user verified or not; and no step of these
\* requests writes the users table.
C38_EmailVerifiedNotRead ==
    [][\A r \in Req :
        /\ (Calls(r, "login_find") /\ ~req'[r].fault) =>
                LET status == LoginCheck(find_by_email(Twin, req[r].email),
                                         req[r].password)
                IN  /\ status = OK => req'[r].pc = "login_create"
                    /\ status # OK =>
                            /\ req'[r].pc = "done"
                            /\ req'[r].status = status
                            /\ NoTokens(req'[r])
        /\ ((Calls(r, "login_create") \/ Calls(r, "create"))
                /\ ~req'[r].fault) =>
                /\ req'[r].pc = "done" /\ req'[r].status = OK
                /\ ~NoTokens(req'[r])
        /\ (Calls(r, "auth_find") /\ ~req'[r].fault) =>
                /\ req'[r].pc = "done"
                /\ req'[r].status =
                        IF find_by_id(Twin, req[r].user_id) = NoUser
                        THEN UNAUTHORIZED ELSE OK
                /\ req'[r].status = OK =>
                        req'[r].auth = find_by_id(Twin, req[r].user_id).id
        /\ (Calls(r, "breach_user") /\ ~req'[r].fault) =>
                (req'[r].pc = "breach_mail")
                    = (find_by_id(Twin, req[r].row.user_id) # NoUser)
        /\ (req'[r].op \in {"login", "refresh", "current_user"}
                /\ Steps(r)) => users' = users
      ]_vars

\* C38 witness: u1 has not verified its email; its login with e1 and p1 has
\* returned 200 with a token pair and a current_user with its access token
\* has returned 200 as u1.
C38_Witness ==
    \E r1, r2 \in Req :
        /\ \E u \in users : u.id = "u1" /\ ~u.email_verified
        /\ req[r1].op = "login" /\ req[r1].pc = "done"
        /\ req[r1].status = OK /\ req[r1].access_token.sub = "u1"
        /\ req[r2].op = "current_user" /\ req[r2].pc = "done"
        /\ req[r2].status = OK /\ req[r2].auth = "u1"

\* C39: a logout carries no Authorization header and its delete, when it
\* returns Ok, is answered 200 whether or not a row has the token; with no
\* such row the store is as before; after the delete no row has the token,
\* so that a second logout of the token finds the store of the first and
\* leaves it; and in every reachable store, deleting a token twice gives the
\* table that deleting it once gives.
C39_LogoutIdempotent ==
    /\ [](\A T \in 0..(MaxTokens + 1) :
            delete_token(delete_token(refresh_tokens, T), T)
                = delete_token(refresh_tokens, T))
    /\ [][\A r \in Req :
            (Calls(r, "logout_delete") /\ ~req'[r].fault) =>
                /\ req[r].header = NoHeader
                /\ req'[r].pc = "done" /\ req'[r].status = OK
                /\ ~HasToken(refresh_tokens', req[r].token)
                /\ ~HasToken(refresh_tokens, req[r].token) =>
                        UNCHANGED <<users, refresh_tokens, alerts>>
                /\ LoggedOut(req[r].token) =>
                        UNCHANGED <<users, refresh_tokens, alerts>>
       ]_vars

\* C39 witness: two logouts of token 2 have both answered 200; token 2 is
\* gone and the rows of tokens 1 and 3 are in the store.
C39_Witness ==
    \E r1, r2 \in Req :
        /\ r1 # r2
        /\ req[r1].op = "logout" /\ req[r1].pc = "done"
        /\ req[r1].token = 2 /\ req[r1].status = OK
        /\ req[r2].op = "logout" /\ req[r2].pc = "done"
        /\ req[r2].token = 2 /\ req[r2].status = OK
        /\ ~HasToken(refresh_tokens, 2)
        /\ HasToken(refresh_tokens, 1) /\ HasToken(refresh_tokens, 3)

Spec == Init /\ [][Next]_vars

SpecRegistration == InitAccount /\ [][NextRegistration]_vars

SpecRecovery == InitAccount /\ [][NextRecovery]_vars

SpecUsers == InitAccount /\ [][NextUsers]_vars

SpecPassword == InitPassword /\ [][NextPassword]_vars

SpecAuth == InitAuth /\ [][NextAuth]_vars

SpecVerified == InitVerified /\ [][NextVerified]_vars
====
